---- MODULE Spec2Model ----
(***************************************************************************)
(* Multi-strategy retrieval and rank fusion of icesrag:                    *)
(*   icesrag/retrieve/rerank/rrf.py        ReciprocalRerankFusion, _rrf    *)
(*   icesrag/retrieve/pipeline/retriever.py CompositeRetriever             *)
(*   icesrag/retrieve/retrievers/           SQLiteRetriever, ChromaRetriever*)
(* and the ingestion that fills the stores of the strategies:              *)
(*   icesrag/load/pipeline/loader.py        CompositeLoader, _create_ids    *)
(*   icesrag/load/store/                    SQLiteDBStore, ChromaDBStore    *)
(*                                                                         *)
(* A Python dict is insertion ordered; it is modelled as a sequence of     *)
(* records [key, val] with pairwise distinct keys.  A fused score is the   *)
(* exact rational sum of 1/(K + rank + 1), represented by the integer      *)
(* Scale * score, where Scale is a common multiple of every denominator    *)
(* the bounded ranks can produce.  (For the ranks and the numbers of       *)
(* strategies of these bounds the order of the Python floats agrees with   *)
(* the order of the exact sums.)  Where the order of the additions matters *)
(* (SpecPerm) the score is the Python float itself, bit by bit.            *)
(***************************************************************************)
EXTENDS Integers, Sequences, FiniteSets, TLC

\* ------------------------------------------------------------------ bounds
NStrat     == 2   \* largest number of strategies in one configuration
NumDocs    == 2   \* number of distinct document ids
MaxRank    == 2   \* largest rank in the argument of one rerank call
MaxEntries == 4   \* largest number of (strategy, chunk id) entries in that argument
MaxChanged == 3   \* the same, for an argument that is changed for a second call
MaxK       == 3   \* largest k requested from a retriever
MaxRepeated == 2  \* largest number of entries in an argument rerank is called on twice
MaxOther   == 1   \* largest number of entries in the argument of a call in between
MaxScore   == 1   \* largest native score (or distance) of a stored entry for the query
MaxChunks  == 2   \* largest number of chunks in one prepare call
MaxPrepares == 2  \* largest number of prepare calls on one loader
MaxLoads   == 2   \* largest number of load calls on one loader
MaxNow     == 1   \* the clock seconds that pass while the loader is used
PermStrats == 3   \* largest number of strategies in an argument rerank is called on in two orders
MaxPermRank == 7  \* largest rank in that argument

DocIds == 1..NumDocs
Ranks  == 1..MaxRank

\* ------------------------------------------------------- program constants
RRF_K == 60

\* ------------------------------------------------------------- variables
VARIABLES
    rankings,      \* rerank: argument, a dict strategy -> (dict chunk id -> rank)
    contrib,       \* rerank: final_d after the padding, before _rrf (chunk id -> list of ranks)
    final_d,       \* rerank: returned dict chunk id -> fused score
    pcR,           \* rerank: "input" before the call, "done" after it
    improved,      \* the chunk id whose rank was made smaller for the last call, and
                   \* whether that lowered the maximum rank (id 0: no such change)
    strategies_,   \* CompositeRetriever.strategies_: list of descriptors
    query,         \* retrieve: the argument query of the last call
    arg_k,         \* retrieve: the argument k of the last call
    fusion_rank,   \* retrieve: the fused dict of the last call
    docs,          \* retrieve: returned documents
    scores,        \* retrieve: returned fusion scores
    metadatas,     \* retrieve: returned metadata
    pcC,           \* retrieve: "idle" before the first call, then "returned" or "raised"
    first_call,    \* rerank: argument and result of the first call on the object
    calls,         \* retrieve: the calls made on the engines of the strategies, in order
    kind,          \* one retrieval strategy: "sqlite" (SQLiteRetriever) or "chroma" (ChromaRetriever)
    store,         \* the backing store at the location the strategy is given
    tie_order,     \* the order in which the sort of the backend leaves entries of equal score
    client,        \* RetrieverStrategy.client
    collection,    \* RetrieverStrategy.collection
    ret,           \* the last call on the strategy, or on a composite retriever over it, and its outcome
    packages_,     \* CompositeLoader.packages_: the prepared packages
    stores,        \* the stores the loader's strategies are bound to
    now,           \* datetime.now(), in seconds
    ld,            \* CompositeLoader: the last call, its outcome, and the history of calls
    frames,        \* two retrieve calls: position, arguments and outcome of each
    locals,        \* two retrieve calls: results and fuse_results of each
    models         \* SentenceTransformEmbedder.model of the embedder of each strategy

rrfVars == <<rankings, contrib, final_d, pcR, improved>>
compVars == <<strategies_, query, arg_k, fusion_rank, docs, scores, metadatas, pcC>>
retVars == <<kind, store, tie_order, client, collection, ret>>
loadVars == <<packages_, stores, now, ld>>
concVars == <<frames, locals, models>>
vars == <<rankings, contrib, final_d, pcR, improved,
          strategies_, query, arg_k, fusion_rank, docs, scores, metadatas, pcC,
          first_call, calls, kind, store, tie_order, client, collection, ret,
          packages_, stores, now, ld, frames, locals, models>>

NoChange == [id |-> 0, lowered |-> FALSE]

\* no call of rerank has been made on the object yet
NoCall == [called |-> FALSE, rankings |-> <<>>, final_d |-> <<>>, between |-> FALSE]

\* no store at the location
NoStore == [exists |-> FALSE, collections |-> {}, rows |-> <<>>]

\* no call has been made on the retrieval strategy yet
NoRet == [op |-> "none", name |-> "", k |-> 0, raised |-> "none", documents |-> <<>>,
          document_ids |-> <<>>, rankings |-> <<>>, scores |-> <<>>, metadatas |-> <<>>]

\* no call has been made on the loader yet
NoLoad == [op |-> "none", chunks |-> <<>>, raised |-> "none", base |-> 0,
           prepares |-> 0, loads |-> 0, owner |-> <<>>, added |-> <<>>]

\* no loader
LoadIdle ==
    /\ packages_ = <<>>
    /\ stores = <<>>
    /\ now = 0
    /\ ld = NoLoad

\* no retrieve call on a shared retriever
ConcIdle ==
    /\ frames = <<>>
    /\ locals = <<>>
    /\ models = <<>>

\* RetrieverStrategy.__init__: self.client = None; self.collection = None
RetIdle ==
    /\ kind = "sqlite"
    /\ store = NoStore
    /\ tie_order = <<>>
    /\ client = "None"
    /\ collection = "None"
    /\ ret = NoRet

\* ------------------------------------------------------ sequences and dicts
RECURSIVE SumSeq(_)
SumSeq(s) == IF s = <<>> THEN 0 ELSE Head(s) + SumSeq(Tail(s))

Max(a, b) == IF a > b THEN a ELSE b
Min(a, b) == IF a < b THEN a ELSE b

\* all sequences over S of length at most n with pairwise distinct elements
DistinctSeqs(S, n) ==
    {q \in UNION {[1..m -> S] : m \in 0..n} :
        \A i, j \in DOMAIN q : i # j => q[i] # q[j]}

Keys(d) == {d[i].key : i \in DOMAIN d}
KeyList(d) == [i \in DOMAIN d |-> d[i].key]
Get(d, key) == d[CHOOSE i \in DOMAIN d : d[i].key = key].val
\* d[key] = v : replaces in place, or inserts at the end
Put(d, key, v) ==
    IF key \in Keys(d)
    THEN [i \in DOMAIN d |-> IF d[i].key = key THEN [key |-> key, val |-> v] ELSE d[i]]
    ELSE Append(d, [key |-> key, val |-> v])

\* --------------------------------------------------------------- scores
RECURSIVE GCD(_, _)
GCD(a, b) == IF b = 0 THEN a ELSE GCD(b, a % b)

RECURSIVE LCMUpTo(_)
LCMUpTo(r) ==
    IF r = 0 THEN 1
    ELSE LET l == LCMUpTo(r - 1)
             d == RRF_K + r + 1
         IN  (l \div GCD(l, d)) * d

\* common multiple of K + rank + 1 for every real rank and every padded rank
Scale == LCMUpTo(MaxRank + 1)

\* the + 1 is left out
RrfTermNoPlusOne(rank) == Scale \div (RRF_K + rank)

\* the rank is subtracted
RrfTermMinusRank(rank) == Scale \div (RRF_K - rank + 1)

\* 1 / (k + rank + 1), times Scale
RrfTerm(rank) == Scale \div (RRF_K + rank + 1)

\* _rrf(ranking): final_rank = 0; for rank in ranking: final_rank += 1 / (k + rank + 1)
RECURSIVE rrfFrom(_, _)
rrfFrom(ranking, final_rank) ==
    IF ranking = <<>> THEN final_rank
    ELSE rrfFrom(Tail(ranking), final_rank + RrfTerm(Head(ranking)))

rrf(ranking) == rrfFrom(ranking, 0)

\* ------------------------------------------- ReciprocalRerankFusion.rerank
\* the dict is replaced, not extended
NewEntryReset(fd, chunk, rank) == <<[key |-> chunk, val |-> <<rank>>]>>

\* a chunk id seen for the first time: final_d[chunk] = [rank]
NewEntry(fd, chunk, rank) == Put(fd, chunk, <<rank>>)

\* body of the inner assembly loop; acc = [final_d, max_rank]
AssembleChunk(acc, chunk, rank) ==
    [max_rank |-> IF rank > acc.max_rank THEN rank ELSE acc.max_rank,
     final_d  |-> IF chunk \in Keys(acc.final_d)
                  THEN Put(acc.final_d, chunk, Append(Get(acc.final_d, chunk), rank))
                  ELSE NewEntry(acc.final_d, chunk, rank)]

\* for chunk in strategy.keys(): ...
RECURSIVE AssembleStrategy(_, _, _)
AssembleStrategy(strategy, i, acc) ==
    IF i > Len(strategy) THEN acc
    ELSE AssembleStrategy(strategy, i + 1,
                          AssembleChunk(acc, strategy[i].key, strategy[i].val))

\* for strategy in rankings: ...
RECURSIVE Assemble(_, _, _)
Assemble(rks, s, acc) ==
    IF s > Len(rks) THEN acc
    ELSE Assemble(rks, s + 1, AssembleStrategy(rks[s], 1, acc))

\* the maximum rank itself is appended
PadRankNoPlusOne(max_rank) == max_rank

\* the rank appended for a strategy that does not rank the chunk
PadRank(max_rank) == max_rank + 1

\* for i in range(0, delta): curr.append(max_rank + 1)
RECURSIVE PadTimes(_, _, _)
PadTimes(curr, delta, max_rank) ==
    IF delta <= 0 THEN curr
    ELSE PadTimes(Append(curr, PadRank(max_rank)), delta - 1, max_rank)

\* equal representation of one chunk
Pad(curr, n_strategies, max_rank) ==
    LET k == Len(curr)
    IN  IF k < n_strategies THEN PadTimes(curr, n_strategies - k, max_rank)
        ELSE curr

\* what a call finds when no call was made on the object before
NothingLeft == [final_d |-> <<>>, max_rank |-> 0]

\* the call goes on with the final_d and the max_rank of the call before
EntryLocalsKept(left) == left

\* final_d = {}; max_rank = 0: the locals a call starts with, whatever the
\* call before it on the same object left
EntryLocals(left) == [final_d |-> <<>>, max_rank |-> 0]

\* final_d after the padding of every chunk and before _rrf, in a call on an
\* object whose last call left the locals left
PaddedOn(rks, left) ==
    LET n_strategies == Len(rks)
        acc == Assemble(rks, 1, EntryLocals(left))
    IN  [i \in DOMAIN acc.final_d |->
            [key |-> acc.final_d[i].key,
             val |-> Pad(acc.final_d[i].val, n_strategies, acc.max_rank)]]

\* the same in the first call on the object
Padded(rks) == PaddedOn(rks, NothingLeft)

\* final_d[chunk] = _rrf(final_d[chunk])
Scored(fd) == [i \in DOMAIN fd |-> [key |-> fd[i].key, val |-> rrf(fd[i].val)]]

\* reverse=True is left out
StaysBeforeAscending(x, y) == x.val <= y.val

\* an item passes the items of equal score
StaysBeforeStrict(x, y) == x.val > y.val

\* sorted(..., key=lambda item: item[1], reverse=True): does x, already placed,
\* stay in front of the later item y?
StaysBefore(x, y) == x.val >= y.val

InsertSorted(sorted, y) ==
    LET front == {i \in DOMAIN sorted : \A j \in 1..i : StaysBefore(sorted[j], y)}
        pos == Cardinality(front)
    IN  SubSeq(sorted, 1, pos) \o <<y>> \o SubSeq(sorted, pos + 1, Len(sorted))

RECURSIVE SortFrom(_, _)
SortFrom(items, sorted) ==
    IF items = <<>> THEN sorted
    ELSE SortFrom(Tail(items), InsertSorted(sorted, Head(items)))

SortByScore(fd) == SortFrom(fd, <<>>)

rerank(rks) == SortByScore(Scored(Padded(rks)))

\* ------------------------------------------------- retrieval strategies
\* the metadata keys the store of a strategy carries: "title" in every store,
\* "year" in every second one
MetaKeys(name) == IF name % 2 = 1 THEN {"title"} ELSE {"title", "year"}

\* the copy of document id that the store of strategy name holds: the text and
\* the metadata values are tagged with the id and with the store they come from
Entry(name, id, mkeys) ==
    [ids       |-> id,
     documents |-> [id |-> id, src |-> name],
     metadatas |-> [key \in mkeys |-> [id |-> id, src |-> name]]]

\* RetrieverStrategy.rank_all(query) of a connected strategy: every entry of the
\* store in relevance order for the query, with the ranks 1..N
rank_all(retriever) ==
    [documents    |-> [i \in DOMAIN retriever.ranked |-> retriever.ranked[i].documents],
     document_ids |-> [i \in DOMAIN retriever.ranked |-> retriever.ranked[i].ids],
     rankings     |-> [i \in DOMAIN retriever.ranked |-> i],
     metadatas    |-> [i \in DOMAIN retriever.ranked |-> retriever.ranked[i].metadatas]]

\* --------------------------------------------- CompositeRetriever.retrieve
\* rank_d[chunk_id] = res['rankings'][i] for every i
RECURSIVE RankDict(_, _, _)
RankDict(res, i, rank_d) ==
    IF i > Len(res.document_ids) THEN rank_d
    ELSE RankDict(res, i + 1, Put(rank_d, res.document_ids[i], res.rankings[i]))

\* the loop over the strategies; acc = [results, fuse_results]
RECURSIVE RunStrategies(_, _, _)
RunStrategies(strats, i, acc) ==
    IF i > Len(strats) THEN acc
    ELSE LET name == strats[i].name
             res  == rank_all(strats[i].retriever)
         IN  RunStrategies(strats, i + 1,
                 [results      |-> Put(acc.results, name, res),
                  fuse_results |-> Put(acc.fuse_results, name, RankDict(res, 1, <<>>))])

\* if k > len(fusion_rank): k = len(fusion_rank)
ClampK(k, n) == IF k > n THEN n ELSE k

\* list.index(id): the first position of id, 0 where Python raises ValueError
IndexOf(list, id) ==
    IF \E i \in DOMAIN list : list[i] = id
    THEN CHOOSE i \in DOMAIN list : list[i] = id /\ \A j \in 1..(i - 1) : list[j] # id
    ELSE 0

\* a | b on dicts: the keys of both, b wins on a collision
DictUnion(a, b) ==
    [key \in DOMAIN a \cup DOMAIN b |-> IF key \in DOMAIN b THEN b[key] ELSE a[key]]

\* the miss is not caught and the ValueError leaves retrieve
OnMissRaise(out) == [out EXCEPT !.raised = TRUE]

\* except ValueError: logger.warning(...)
OnMiss(out) == out

\* the try body for one strategy's result that holds the id at chunk_pos
TakeFrom(out, temp, result, chunk_pos) ==
    LET d1 == IF "document" \notin DOMAIN temp
              THEN Append(out.docs, result.documents[chunk_pos])
              ELSE out.docs
        m1 == IF "metadata" \notin DOMAIN temp
              THEN Append(out.metadatas, result.metadatas[chunk_pos])
              ELSE Append(out.metadatas,
                          DictUnion(result.metadatas[chunk_pos], temp["metadata"]))
    IN  [out EXCEPT !.docs = d1, !.metadatas = m1]

\* for result in results.keys(): ...
RECURSIVE Resolve(_, _, _, _, _)
Resolve(results, r, id, temp, out) ==
    IF r > Len(results) \/ out.raised THEN out
    ELSE LET result == results[r].val
             chunk_pos == IndexOf(result.document_ids, id)
         IN  Resolve(results, r + 1, id, temp,
                     IF chunk_pos = 0 THEN OnMiss(out)
                     ELSE TakeFrom(out, temp, result, chunk_pos))

\* for i in range(0, k): temp = {}; id = fused_ids[i]; scores.append(...); ...
RECURSIVE Select(_, _, _, _, _)
Select(results, fusion, i, k, out) ==
    IF i > k \/ out.raised THEN out
    ELSE LET temp == <<>>
             id == fusion[i].key
             out1 == [out EXCEPT !.scores = Append(out.scores, Get(fusion, id))]
         IN  Select(results, fusion, i + 1, k, Resolve(results, 1, id, temp, out1))

\* the values of a dict in its order
Values(d) == [i \in DOMAIN d |-> d[i].val]

retrieve(strats, k) ==
    LET run == RunStrategies(strats, 1, [results |-> <<>>, fuse_results |-> <<>>])
        fusion == rerank(Values(run.fuse_results))
        out == Select(run.results, fusion, 1, ClampK(k, Len(fusion)),
                      [docs |-> <<>>, scores |-> <<>>, metadatas |-> <<>>, raised |-> FALSE])
    IN  [fusion_rank |-> fusion, docs |-> out.docs, scores |-> out.scores,
         metadatas |-> out.metadatas, raised |-> out.raised]

\* ------------------------------------- specification of the composite retriever
\* the descriptors: distinct names (the name is the key of results and of
\* fuse_results), each with a connected retriever over its own store
Descriptor(name, ids, mkeys) ==
    [name      |-> name,
     retriever |-> [ranked |-> [i \in DOMAIN ids |-> Entry(name, ids[i], mkeys)]]]

StoreChoices == DistinctSeqs(DocIds, NumDocs)

RrfIdle ==
    /\ rankings = <<>>
    /\ contrib = <<>>
    /\ final_d = <<>>
    /\ pcR = "input"
    /\ improved = NoChange

Init ==
    /\ \E n \in 0..NStrat : \E ch \in [1..n -> StoreChoices] :
          strategies_ = [i \in 1..n |-> Descriptor(i, ch[i], MetaKeys(i))]
    /\ query = ""
    /\ arg_k = 0
    /\ fusion_rank = <<>>
    /\ docs = <<>>
    /\ scores = <<>>
    /\ metadatas = <<>>
    /\ pcC = "idle"
    /\ RrfIdle
    /\ first_call = NoCall
    /\ calls = <<>>
    /\ RetIdle
    /\ LoadIdle
    /\ ConcIdle

\* one call retrieve(query, k); the strategies' rankings are those of this query
Retrieve ==
    \E k \in 0..MaxK :
        \E out \in {retrieve(strategies_, k)} :
            /\ arg_k' = k
            /\ fusion_rank' = out.fusion_rank
            /\ docs' = out.docs
            /\ scores' = out.scores
            /\ metadatas' = out.metadatas
            /\ pcC' = IF out.raised THEN "raised" ELSE "returned"
            /\ UNCHANGED <<strategies_, query, rrfVars, first_call, calls, retVars, loadVars, concVars>>

Next == Retrieve

Spec == Init /\ [][Next]_vars

\* --------------------------------------------- specification of rerank
\* the ranks of the argument of rerank, as sets
MaxRankSeen(rks) ==
    LET all == UNION {{rks[s][i].val : i \in DOMAIN rks[s]} : s \in DOMAIN rks}
    IN  IF all = {} THEN 0 ELSE CHOOSE m \in all : \A r \in all : r <= m

\* a dict chunk id -> rank of one strategy
RankMaps ==
    UNION {{[i \in DOMAIN ids |-> [key |-> ids[i], val |-> rk[i]]] :
                rk \in [DOMAIN ids -> Ranks]} : ids \in DistinctSeqs(DocIds, NumDocs)}

\* the argument of the call: n more strategies after those of rks, with at most
\* e more entries
RECURSIVE DrawRankings(_, _, _)
DrawRankings(n, e, rks) ==
    IF n = 0 THEN rankings = rks
    ELSE \E m \in RankMaps :
            /\ Len(m) <= e
            /\ DrawRankings(n - 1, e - Len(m), Append(rks, m))

InitWith(e) ==
    /\ \E n \in 0..NStrat : DrawRankings(n, e, <<>>)
    /\ contrib = <<>>
    /\ final_d = <<>>
    /\ pcR = "input"
    /\ improved = NoChange
    /\ strategies_ = <<>>
    /\ query = ""
    /\ arg_k = 0
    /\ fusion_rank = <<>>
    /\ docs = <<>>
    /\ scores = <<>>
    /\ metadatas = <<>>
    /\ pcC = "idle"
    /\ first_call = NoCall
    /\ calls = <<>>
    /\ RetIdle
    /\ LoadIdle
    /\ ConcIdle

CallRerank(rks) ==
    \E padded \in {Padded(rks)} :
    /\ rankings' = rks
    /\ contrib' = padded
    /\ final_d' = SortByScore(Scored(padded))
    /\ pcR' = "done"
    /\ UNCHANGED <<compVars, first_call, calls, retVars, loadVars, concVars>>

\* the first call on the drawn rankings
Rerank ==
    /\ pcR = "input"
    /\ CallRerank(rankings)
    /\ improved' = NoChange

\* a second call on rankings that differ in one rank, which is now smaller
RerankImproved ==
    /\ pcR = "done"
    /\ improved = NoChange
    /\ \E s \in DOMAIN rankings : \E i \in DOMAIN rankings[s] : \E r \in Ranks :
          /\ r < rankings[s][i].val
          /\ CallRerank([rankings EXCEPT ![s][i].val = r])
          /\ improved' = [id |-> rankings[s][i].key,
                          lowered |-> MaxRankSeen([rankings EXCEPT ![s][i].val = r])
                                          < MaxRankSeen(rankings)]

InitRRF == InitWith(MaxEntries)

NextRRF == Rerank

SpecRRF == InitRRF /\ [][NextRRF]_vars

\* two calls, the second on the changed argument
InitMono == InitWith(MaxChanged)

NextMono == Rerank \/ RerankImproved

SpecMono == InitMono /\ [][NextMono]_vars

\* ---------------------------- repeated calls of rerank on one object
\* the assembly locals as the last call on the object left them
Left ==
    IF pcR = "input" THEN NothingLeft
    ELSE [final_d |-> contrib, max_rank |-> MaxRankSeen(rankings)]

CallOn(rks) ==
    \E padded \in {PaddedOn(rks, Left)} :
    /\ rankings' = rks
    /\ contrib' = padded
    /\ final_d' = SortByScore(Scored(padded))
    /\ improved' = NoChange
    /\ UNCHANGED <<compVars, calls, retVars, loadVars, concVars>>

\* the first call on the object, on the drawn rankings
RerankFirst ==
    /\ pcR = "input"
    /\ CallOn(rankings)
    /\ pcR' = "done"
    /\ first_call' = [called |-> TRUE, rankings |-> rankings, final_d |-> final_d',
                      between |-> FALSE]

\* a call on other rankings after the first call: one strategy with at least
\* one entry
RerankOther ==
    /\ pcR = "done"
    /\ \E m \in RankMaps :
          /\ Len(m) >= 1
          /\ Len(m) <= MaxOther
          /\ <<m>> # first_call.rankings
          /\ CallOn(<<m>>)
    /\ pcR' = "other"
    /\ first_call' = [first_call EXCEPT !.between = TRUE]

\* one more call on rankings equal to those of the first call
RerankAgain ==
    /\ pcR \in {"done", "other"}
    /\ CallOn(first_call.rankings)
    /\ pcR' = "again"
    /\ UNCHANGED first_call

InitDet == InitWith(MaxRepeated)

NextDet == RerankFirst \/ RerankOther \/ RerankAgain

SpecDet == InitDet /\ [][NextDet]_vars

\* ------------------------------- SQLiteRetriever and ChromaRetriever
\* the collection names connect is called with; a store holds "ices" or nothing
CollNames == {"ices", "corpus", "Corpus"}

\* one stored entry: SQLite keeps the metadata as JSON text.  score is the
\* native score of the entry for the query: the BM25 score (SQLite, higher is
\* better) or the distance (Chroma, lower is better)
Row(k, id, sc) ==
    [ids       |-> id,
     documents |-> [id |-> id],
     metadatas |-> IF k = "sqlite" THEN [json |-> [title |-> id]] ELSE [title |-> id],
     score     |-> sc]

\* json.loads(meta)
json_loads(meta) == meta.json

\* the corpora: entries with pairwise distinct document ids, in storage order
RowSeqs(k) ==
    UNION {{[i \in DOMAIN ids |-> Row(k, ids[i], sc[i])] :
                sc \in [DOMAIN ids -> 0..MaxScore]} : ids \in DistinctSeqs(DocIds, NumDocs)}

Perms(n) == {q \in [1..n -> 1..n] : \A i, j \in 1..n : i # j => q[i] # q[j]}

PosIn(seq, x) == CHOOSE i \in DOMAIN seq : seq[i] = x

\* ascending=True
ScoreBeforeAscending(a, b) == a < b

\* data.sort_values(by='score', ascending=False)
ScoreBefore(a, b) == a > b

\* collection.query: the nearest entries first
DistanceBefore(a, b) == a < b

\* does the entry at storage position i come before the one at position j?
\* Neither backend orders entries of equal score by a key of its own: they
\* come out in the order tie, which the sort of the build fixes
Before(k, rows, tie, i, j) ==
    IF rows[i].score # rows[j].score
    THEN IF k = "sqlite" THEN ScoreBefore(rows[i].score, rows[j].score)
         ELSE DistanceBefore(rows[i].score, rows[j].score)
    ELSE PosIn(tie, i) < PosIn(tie, j)

SortedRows(k, rows, tie) ==
    [r \in DOMAIN rows |->
        rows[CHOOSE p \in DOMAIN rows :
                Cardinality({j \in DOMAIN rows : Before(k, rows, tie, j, p)}) = r - 1]]

\* np.arange(0, len(data))
ArangeFromZero(i) == i - 1

\* np.arange(1, len(data)+1), the element at position i
Arange(i) == i

\* _retrieve_and_rank(query, collection_name, client): pd.read_sql fails on a
\* table that does not exist, BM25Okapi divides by the corpus size
retrieve_and_rank(st, collection_name, tie) ==
    IF collection_name \notin st.collections THEN [raised |-> "DatabaseError", data |-> <<>>]
    ELSE IF Len(st.rows) = 0 THEN [raised |-> "ZeroDivisionError", data |-> <<>>]
    ELSE LET data == SortedRows("sqlite", st.rows, tie)
         IN  [raised |-> "none",
              data |-> [i \in DOMAIN data |->
                          [ids |-> data[i].ids, documents |-> data[i].documents,
                           metadatas |-> data[i].metadatas, score |-> data[i].score,
                           rank |-> Arange(i)]]]

\* data.iloc[:top_k]
Iloc(data, top_k) == SubSeq(data, 1, Min(top_k, Len(data)))

\* the guard is missing
NotConnectedNever(cl) == FALSE

\* if self.client is None: raise ValueError(... has not been connected ...)
NotConnected(cl) == cl = "None"

Raised(op, k, error) == [NoRet EXCEPT !.op = op, !.k = k, !.raised = error]

\* SQLiteRetriever.top_k(query, top_k)
SqliteTopK(cl, coll, st, tie, top_k) ==
    IF NotConnected(cl) THEN Raised("top_k", top_k, "ValueError")
    ELSE LET ranked == retrieve_and_rank(st, coll, tie)
             data == Iloc(ranked.data, top_k)
         IN  IF ranked.raised # "none" THEN Raised("top_k", top_k, ranked.raised)
             ELSE [NoRet EXCEPT !.op = "top_k", !.k = top_k,
                       !.documents = [i \in DOMAIN data |-> data[i].documents],
                       !.scores = [i \in DOMAIN data |-> data[i].score],
                       !.metadatas = [i \in DOMAIN data |-> json_loads(data[i].metadatas)]]

\* SQLiteRetriever.rank_all(query)
SqliteRankAll(cl, coll, st, tie) ==
    IF NotConnected(cl) THEN Raised("rank_all", 0, "ValueError")
    ELSE LET ranked == retrieve_and_rank(st, coll, tie)
             data == ranked.data
         IN  IF ranked.raised # "none" THEN Raised("rank_all", 0, ranked.raised)
             ELSE [NoRet EXCEPT !.op = "rank_all",
                       !.documents = [i \in DOMAIN data |-> data[i].documents],
                       !.document_ids = [i \in DOMAIN data |-> data[i].ids],
                       !.rankings = [i \in DOMAIN data |-> data[i].rank],
                       !.metadatas = [i \in DOMAIN data |-> json_loads(data[i].metadatas)]]

\* collection.query(..., n_results): chromadb rejects n_results <= 0 and gives
\* at most as many results as the collection holds
ChromaQuery(st, tie, n_results) ==
    IF n_results <= 0 THEN [raised |-> "TypeError", results |-> <<>>]
    ELSE [raised |-> "none",
          results |-> SubSeq(SortedRows("chroma", st.rows, tie), 1,
                             Min(n_results, Len(st.rows)))]

\* ChromaRetriever.top_k(query, top_k); self.collection is None after a
\* connect that failed in get_collection
ChromaTopK(cl, coll, st, tie, top_k) ==
    IF NotConnected(cl) THEN Raised("top_k", top_k, "ValueError")
    ELSE IF coll = "None" THEN Raised("top_k", top_k, "AttributeError")
    ELSE LET q == ChromaQuery(st, tie, top_k)
             results == q.results
         IN  IF q.raised # "none" THEN Raised("top_k", top_k, q.raised)
             ELSE [NoRet EXCEPT !.op = "top_k", !.k = top_k,
                       !.documents = [i \in DOMAIN results |-> results[i].documents],
                       !.scores = [i \in DOMAIN results |-> results[i].score],
                       !.metadatas = [i \in DOMAIN results |-> results[i].metadatas]]

\* [i + 1 for i in range(0, len(document_ids))], the element at position pos
RangePlusOne(pos) == LET i == pos - 1 IN i + 1

\* ChromaRetriever.rank_all(query)
ChromaRankAll(cl, coll, st, tie) ==
    IF NotConnected(cl) THEN Raised("rank_all", 0, "ValueError")
    ELSE IF coll = "None" THEN Raised("rank_all", 0, "AttributeError")
    ELSE LET total_k == Len(st.rows)
             q == ChromaQuery(st, tie, total_k)
             results == q.results
         IN  IF q.raised # "none" THEN Raised("rank_all", 0, q.raised)
             ELSE [NoRet EXCEPT !.op = "rank_all",
                       !.documents = [i \in DOMAIN results |-> results[i].documents],
                       !.document_ids = [i \in DOMAIN results |-> results[i].ids],
                       !.rankings = [i \in DOMAIN results |-> RangePlusOne(i)],
                       !.metadatas = [i \in DOMAIN results |-> results[i].metadatas]]

top_k(k, cl, coll, st, tie, n) ==
    IF k = "sqlite" THEN SqliteTopK(cl, coll, st, tie, n) ELSE ChromaTopK(cl, coll, st, tie, n)

RankAllOf(k, cl, coll, st, tie) ==
    IF k = "sqlite" THEN SqliteRankAll(cl, coll, st, tie) ELSE ChromaRankAll(cl, coll, st, tie)

\* collection_name.lower()
Lower(name) == IF name = "Corpus" THEN "corpus" ELSE name

\* connect(dbpath, collection_name): the outcome [error, collection]
\*   SQLite: sqlite3.connect, then the assert on the reserved name, then the
\*           SELECT that fails when the table does not exist
\*   Chroma: PersistentClient, then get_collection, which fails when the
\*           collection does not exist
ConnectOutcome(k, st, coll, name) ==
    IF k = "sqlite" /\ Lower(name) = "corpus"
    THEN [raised |-> "AssertionError", collection |-> coll]
    ELSE IF name \notin st.collections
    THEN [raised |-> IF k = "sqlite" THEN "Exception" ELSE "CollectionNotFound",
          collection |-> coll]
    ELSE [raised |-> "none", collection |-> name]

\* sorted(enumerate(nums), key=lambda x: x[1], reverse=True): the pairs
\* (index, value), larger values first, equal values in their original order
SortedEnumerate(nums) ==
    [r \in DOMAIN nums |->
        LET p == CHOOSE q \in DOMAIN nums :
                    Cardinality({j \in DOMAIN nums :
                        nums[j] > nums[q] \/ (nums[j] = nums[q] /\ j < q)}) = r - 1
        IN  <<p, nums[p]>>]

\* the loop of reverse_rank_list; current_rank is i, both start at the first
\* item and grow by one in every round
RECURSIVE ReverseRankLoop(_, _, _)
ReverseRankLoop(sorted_nums, i, ranks) ==
    IF i > Len(sorted_nums) THEN ranks
    ELSE LET current_rank == i
             r == IF i > 1 /\ sorted_nums[i][2] = sorted_nums[i - 1][2]
                  THEN ranks[sorted_nums[i - 1][1]]
                  ELSE current_rank
         IN  ReverseRankLoop(sorted_nums, i + 1, [ranks EXCEPT ![sorted_nums[i][1]] = r])

\* reverse_rank_list(nums) of chroma_bm25.py
reverse_rank_list(nums) ==
    ReverseRankLoop(SortedEnumerate(nums), 1, [i \in DOMAIN nums |-> 0])

\* ------------------------------- specification of one retrieval strategy
InitRet ==
    /\ kind \in {"sqlite", "chroma"}
    /\ \/ store = NoStore
       \/ store = [exists |-> TRUE, collections |-> {}, rows |-> <<>>]
       \/ \E rows \in RowSeqs(kind) :
             store = [exists |-> TRUE, collections |-> {"ices"}, rows |-> rows]
    /\ tie_order \in Perms(Len(store.rows))
    /\ client = "None"
    /\ collection = "None"
    /\ ret = NoRet
    /\ LoadIdle
    /\ ConcIdle
    /\ first_call = NoCall
    /\ calls = <<>>
    /\ RrfIdle
    /\ strategies_ = <<>>
    /\ query = ""
    /\ arg_k = 0
    /\ fusion_rank = <<>>
    /\ docs = <<>>
    /\ scores = <<>>
    /\ metadatas = <<>>
    /\ pcC = "idle"

\* connect(dbpath, collection_name): both sqlite3.connect and PersistentClient
\* create the store at dbpath when there is none, and self.client is set
\* before anything is checked
Connect ==
    \E name \in CollNames :
        \E out \in {ConnectOutcome(kind, store, collection, name)} :
            /\ client' = "set"
            /\ store' = [store EXCEPT !.exists = TRUE]
            /\ collection' = out.collection
            /\ ret' = [NoRet EXCEPT !.op = "connect", !.name = name, !.raised = out.raised]
            /\ UNCHANGED <<kind, tie_order, rrfVars, compVars, first_call, calls, loadVars, concVars>>

TopK ==
    \E k \in 0..MaxK :
        /\ ret' = top_k(kind, client, collection, store, tie_order, k)
        /\ UNCHANGED <<kind, store, tie_order, client, collection,
                       rrfVars, compVars, first_call, calls, loadVars, concVars>>

RankAll ==
    /\ ret' = RankAllOf(kind, client, collection, store, tie_order)
    /\ UNCHANGED <<kind, store, tie_order, client, collection,
                   rrfVars, compVars, first_call, calls, loadVars, concVars>>

NextRet == Connect \/ TopK \/ RankAll

SpecRet == InitRet /\ [][NextRet]_vars

\* ------------------------------------- preprocessing and embedding stages
\* the texts of chunks and of queries; two of them differ in case only
Texts == {"Mars", "mars"}

\* BM25PreProcess.preprocess, of which text.lower() is kept: texts that differ
\* in case get the same preprocessed text
preprocess(text) == IF text = "Mars" THEN "mars" ELSE text

\* BM25PreProcess.batch_preprocess(texts)
batch_preprocess(texts) == [i \in DOMAIN texts |-> preprocess(texts[i])]

\* a value of the 'embeddings' list of a package: a text, or the vector the
\* model gives for a text
Str(text) == [type |-> "str", of |-> text]
Vector(text) == [type |-> "vector", of |-> text]

\* SentenceTransformEmbedder.batch_process(texts)
EmbedBatchProcess(texts) == [i \in DOMAIN texts |-> Vector(texts[i])]

\* the methods of the embedders a descriptor can hold: EmbeddingEngine offers
\* embed and batch_embed, SentenceTransformEmbedder process and batch_process
MethodsOf(embedder) ==
    IF embedder = "EmbeddingEngine" THEN {"set_strategy", "embed", "batch_embed"}
    ELSE {"process", "batch_process"}

\* ------------------- retrieve over descriptors as the caller wrote them
\* a descriptor is a dict with the keys the caller gave it, out of 'name',
\* 'preprocess', 'embed' and 'retriever'; its stages are engines, or the bare
\* strategy objects; the retriever of strategy i ranks every document id,
\* for the query "Mars" beginning with id i
RankedFrom(i) == [j \in 1..NumDocs |-> ((i + j - 2) % NumDocs) + 1]

DescriptorWith(keys, i, engines) ==
    [key \in keys |->
        CASE key = "name" -> i
          [] key = "preprocess" -> IF engines THEN "TextPreprocessingEngine" ELSE "BM25PreProcess"
          [] key = "embed" -> IF engines THEN "EmbeddingEngine" ELSE "SentenceTransformEmbedder"
          [] key = "retriever" -> Descriptor(i, RankedFrom(i), MetaKeys(i)).retriever]

DescriptorKeys == {"name", "preprocess", "embed", "retriever"}

\* isinstance(obj, class) for the stage objects, none of which is a subclass
\* of an engine
IsInstance(obj, class) == obj = class

\* the relevance order depends on the query the retriever is given: the
\* entries as ranked for Str("Mars"), moved round by one place for each of
\* the two transformations
Shift(temp_query) ==
    (IF temp_query.of = "mars" THEN 1 ELSE 0) + (IF temp_query.type = "vector" THEN 1 ELSE 0)

Rotate(seq, n) == [j \in DOMAIN seq |-> seq[((j + n - 1) % Len(seq)) + 1]]

\* strategy['retriever'].rank_all(temp_query)
RankAllFor(retriever, temp_query) ==
    rank_all([ranked |-> Rotate(retriever.ranked, Shift(temp_query))])

NoRun == [results |-> <<>>, fuse_results |-> <<>>, calls |-> <<>>, raised |-> "none"]

\* one call on an engine of strategy i
CallOf(i, method, arg) == [strategy |-> i, call |-> method, arg |-> arg]

\* the body of the strategy loop for strategies_[i] and the query q, with the
\* calls it makes on the engines: strategy['name'] and strategy['retriever']
\* raise KeyError when the key is missing, a stage that is not an instance of
\* its engine class is passed over, and embedder.process raises
\* AttributeError when the engine has no such method
RunOne(strategy, i, acc, q) ==
    IF "name" \notin DOMAIN strategy THEN [acc EXCEPT !.raised = "KeyError"]
    ELSE LET name == strategy["name"]
             temp_query == Str(q)
             pre == /\ "preprocess" \in DOMAIN strategy
                    /\ IsInstance(strategy["preprocess"], "TextPreprocessingEngine")
             q1 == IF pre THEN Str(preprocess(temp_query.of)) ELSE temp_query
             c1 == IF pre THEN Append(acc.calls, CallOf(i, "preprocess", temp_query))
                   ELSE acc.calls
             emb == /\ "embed" \in DOMAIN strategy
                    /\ IsInstance(strategy["embed"], "EmbeddingEngine")
         IN  IF emb /\ "process" \notin MethodsOf(strategy["embed"])
             THEN [acc EXCEPT !.calls = c1, !.raised = "AttributeError"]
             ELSE LET q2 == IF emb THEN Vector(q1.of) ELSE q1
                      c2 == IF emb THEN Append(c1, CallOf(i, "process", q1)) ELSE c1
                  IN  IF "retriever" \notin DOMAIN strategy
                      THEN [acc EXCEPT !.calls = c2, !.raised = "KeyError"]
                      ELSE LET res == RankAllFor(strategy["retriever"], q2)
                           IN  [results      |-> Put(acc.results, name, res),
                                fuse_results |-> Put(acc.fuse_results, name,
                                                     RankDict(res, 1, <<>>)),
                                calls        |-> Append(c2, CallOf(i, "rank_all", q2)),
                                raised       |-> "none"]

\* for i, strategy in enumerate(self.strategies_): ...
RECURSIVE RunTraced(_, _, _, _)
RunTraced(strats, i, acc, q) ==
    IF i > Len(strats) \/ acc.raised # "none" THEN acc
    ELSE RunTraced(strats, i + 1, RunOne(strats[i], i, acc, q), q)

\* the part of retrieve after the strategy loop: fusion and selection
FuseSelect(run, k) ==
    LET fusion == rerank(Values(run.fuse_results))
        out == Select(run.results, fusion, 1, ClampK(k, Len(fusion)),
                      [docs |-> <<>>, scores |-> <<>>, metadatas |-> <<>>, raised |-> FALSE])
    IN  IF run.raised # "none"
        THEN [fusion_rank |-> <<>>, docs |-> <<>>, scores |-> <<>>, metadatas |-> <<>>,
              raised |-> TRUE, calls |-> run.calls]
        ELSE [fusion_rank |-> fusion, docs |-> out.docs, scores |-> out.scores,
              metadatas |-> out.metadatas, raised |-> out.raised, calls |-> run.calls]

\* retrieve(query, k) with the calls of the strategy loop
retrieve_traced(strats, q, k) == FuseSelect(RunTraced(strats, 1, NoRun, q), k)

\* the methods of class CompositeRetriever
CompositeMethods == {"__init__", "retrieve"}

\* CompositeRetriever.__init__: the list is stored as it is given; the loop
\* over it only logs strategy.get('name', 'unnamed')
InitCfg ==
    /\ \E n \in 1..NStrat : \E keys \in [1..n -> SUBSET DescriptorKeys] :
       \E engines \in [1..n -> BOOLEAN] :
          strategies_ = [i \in 1..n |-> DescriptorWith(keys[i], i, engines[i])]
    /\ query = ""
    /\ arg_k = 0
    /\ fusion_rank = <<>>
    /\ docs = <<>>
    /\ scores = <<>>
    /\ metadatas = <<>>
    /\ pcC = "idle"
    /\ RrfIdle
    /\ first_call = NoCall
    /\ calls = <<>>
    /\ RetIdle
    /\ LoadIdle
    /\ ConcIdle

\* one call retrieve(query, k)
RetrieveTraced ==
    \E q \in Texts : \E k \in 0..MaxK :
        \E out \in {retrieve_traced(strategies_, q, k)} :
            /\ query' = q
            /\ arg_k' = k
            /\ fusion_rank' = out.fusion_rank
            /\ docs' = out.docs
            /\ scores' = out.scores
            /\ metadatas' = out.metadatas
            /\ calls' = out.calls
            /\ pcC' = IF out.raised THEN "raised" ELSE "returned"
            /\ UNCHANGED <<strategies_, rrfVars, first_call, retVars, loadVars, concVars>>

\* one call retriever.top_k(query, k) on the composite retriever, as the user
\* interface and the evaluation scripts make it: the attribute lookup raises
\* AttributeError when the class has no such method
CallTopK ==
    \E q \in Texts : \E k \in 0..MaxK :
        /\ query' = q
        /\ arg_k' = k
        /\ IF "top_k" \in CompositeMethods
           THEN \E out \in {retrieve_traced(strategies_, q, k)} :
                    /\ fusion_rank' = out.fusion_rank
                    /\ docs' = out.docs
                    /\ scores' = out.scores
                    /\ metadatas' = out.metadatas
                    /\ calls' = out.calls
                    /\ pcC' = IF out.raised THEN "top_k raised" ELSE "top_k returned"
           ELSE /\ fusion_rank' = <<>>
                /\ docs' = <<>>
                /\ scores' = <<>>
                /\ metadatas' = <<>>
                /\ calls' = <<>>
                /\ pcC' = "top_k AttributeError"
        /\ UNCHANGED <<strategies_, rrfVars, first_call, retVars, loadVars, concVars>>

NextCfg == RetrieveTraced \/ CallTopK

SpecCfg == InitCfg /\ [][NextCfg]_vars

\* ----------------------------------------------------- CompositeLoader
\* _create_ids(n): f"{i}_{now}" for i in range(0, n), now in whole seconds
create_ids(n, clock) == [j \in 1..n |-> [i |-> j - 1, now |-> clock]]

\* a 'preprocess' value: one TextPreprocessingEngine, or a list of them
Engine == [list |-> FALSE, items |-> <<"TextPreprocessingEngine">>]

\* if isinstance(strategy['preprocess'], TextPreprocessingEngine):
\*     strategy['preprocess'] = [strategy['preprocess']]
AsList(pre) == IF ~pre.list THEN [list |-> TRUE, items |-> pre.items] ELSE pre

\* for j, preprocessor in enumerate(strategy['preprocess']):
\*     chunks = preprocessor.batch_preprocess(chunks)
RECURSIVE ApplyAll(_, _, _)
ApplyAll(items, j, chunks) ==
    IF j > Len(items) THEN chunks
    ELSE ApplyAll(items, j + 1, batch_preprocess(chunks))

\* PackageChroma.batch_process(chunks, metadatas, ids, embeddings): called by
\* the loader with all four
PackageBatchProcess(chunks, mds, ids, embeddings) ==
    [documents |-> chunks, metadatas |-> mds, ids |-> ids, embeddings |-> embeddings]

\* the descriptors of a loader: a dense strategy embeds and stores in Chroma, a
\* sparse one stores the (preprocessed) text in SQLite; store is the position
\* of the strategy's store in stores
LoaderDescriptor(i, c) ==
    [key \in {"name", "package", "store"} \cup c.keys |->
        CASE key = "name" -> i
          [] key = "package" -> "PackageChroma"
          [] key = "store" -> i
          [] key = "preprocess" -> Engine
          [] key = "embed" -> c.embed]

LoaderChoices ==
    {[keys |-> ks, embed |-> e] :
        ks \in SUBSET {"preprocess", "embed"}, e \in {"EmbeddingEngine", "SentenceTransformEmbedder"}}

\* the store of a descriptor, connected and empty.  A Chroma build either
\* ignores an added id the collection already holds or raises
StoreOf(c, dup) ==
    IF "embed" \in c.keys
    THEN [kind |-> "chroma", on_existing |-> dup, rows |-> <<>>]
    ELSE [kind |-> "sqlite", on_existing |-> "append", rows |-> <<>>]

\* the body of the loop of prepare for one strategy.
\* acc = [chunks, packages, strategies, owner, raised]: chunks is the local
\* variable of prepare, which the preprocessing rebinds
PrepareOne(strategy, i, acc, ids, mds) ==
    LET package_chunks == acc.chunks
        has_pre == "preprocess" \in DOMAIN strategy
        has_embed == "embed" \in DOMAIN strategy
        kept == IF has_pre
                THEN [strategy EXCEPT !["preprocess"] = AsList(strategy["preprocess"])]
                ELSE strategy
        chunks == IF has_pre
                  THEN ApplyAll(kept["preprocess"].items, 1, acc.chunks)
                  ELSE acc.chunks
    IN  IF has_embed /\ "batch_process" \notin MethodsOf(strategy["embed"])
        THEN [acc EXCEPT !.chunks = chunks,
                         !.strategies = Append(acc.strategies, kept),
                         !.raised = "AttributeError"]
        ELSE LET embeddings == IF has_embed THEN EmbedBatchProcess(chunks)
                               ELSE [j \in DOMAIN chunks |-> Str(chunks[j])]
                 package == PackageBatchProcess(package_chunks, mds, ids, embeddings)
             IN  [chunks     |-> chunks,
                  packages   |-> Append(acc.packages, package),
                  strategies |-> Append(acc.strategies, kept),
                  owner      |-> Append(acc.owner, i),
                  raised     |-> "none"]

\* for i, strategy in enumerate(self.strategies_): ...
RECURSIVE PrepareLoop(_, _, _, _, _)
PrepareLoop(strats, i, acc, ids, mds) ==
    IF i > Len(strats) THEN acc
    ELSE IF acc.raised # "none"
    THEN PrepareLoop(strats, i + 1,
                     [acc EXCEPT !.strategies = Append(acc.strategies, strats[i])], ids, mds)
    ELSE PrepareLoop(strats, i + 1, PrepareOne(strats[i], i, acc, ids, mds), ids, mds)

\* CompositeLoader.prepare(chunks, metadatas) at clock second clock
prepare(strats, packages, owner, chunks, mds, clock) ==
    PrepareLoop(strats, 1,
                [chunks |-> chunks, packages |-> packages, strategies |-> <<>>,
                 owner |-> owner, raised |-> "none"],
                create_ids(Len(chunks), clock), mds)

\* json.dumps(meta)
json_dumps(meta) == [json |-> meta]

\* COLLATE NOCASE
NoCase(text) == IF text = "Mars" THEN "mars" ELSE text

\* one INSERT into the table of SQLiteDBStore.connect: embeddings is
\* UNIQUE ON CONFLICT REPLACE (compared without case), so the row that holds
\* the same embeddings text is deleted; ids is not unique
SqliteInsert(rows, row) ==
    LET keep == {j \in DOMAIN rows : NoCase(rows[j].embeddings.of) # NoCase(row.embeddings.of)}
        kept == [r \in 1..Cardinality(keep) |->
                    rows[CHOOSE j \in keep : Cardinality({l \in keep : l < j}) = r - 1]]
    IN  Append(kept, row)

\* data.to_sql(..., if_exists='append'): the rows of the frame in order
RECURSIVE ToSql(_, _, _)
ToSql(rows, data, j) ==
    IF j > Len(data.ids) THEN rows
    ELSE ToSql(SqliteInsert(rows, [ids |-> data.ids[j], documents |-> data.documents[j],
                                   embeddings |-> data.embeddings[j],
                                   metadatas |-> json_dumps(data.metadatas[j])]),
               data, j + 1)

\* SQLiteDBStore.add(data) on a connected store: sqlite3 binds text, not vectors
SqliteAdd(st, data) ==
    IF \E j \in DOMAIN data.embeddings : data.embeddings[j].type # "str"
    THEN [raised |-> "InterfaceError", store |-> st]
    ELSE [raised |-> "none", store |-> [st EXCEPT !.rows = ToSql(st.rows, data, 1)]]

\* collection.add of the records whose id the collection does not hold yet
RECURSIVE ChromaInsert(_, _, _)
ChromaInsert(rows, data, j) ==
    IF j > Len(data.ids) THEN rows
    ELSE ChromaInsert(IF \E l \in DOMAIN rows : rows[l].ids = data.ids[j] THEN rows
                      ELSE Append(rows, [ids |-> data.ids[j], documents |-> data.documents[j],
                                         embeddings |-> data.embeddings[j],
                                         metadatas |-> data.metadatas[j]]),
                      data, j + 1)

\* ChromaDBStore.add(data) on a connected store: collection.add(**data) takes
\* vectors as embeddings
ChromaAdd(st, data) ==
    IF \E j \in DOMAIN data.embeddings : data.embeddings[j].type # "vector"
    THEN [raised |-> "ValueError", store |-> st]
    ELSE IF st.on_existing = "raise"
            /\ \E j \in DOMAIN data.ids : \E l \in DOMAIN st.rows : st.rows[l].ids = data.ids[j]
    THEN [raised |-> "DuplicateIDError", store |-> st]
    ELSE [raised |-> "none", store |-> [st EXCEPT !.rows = ChromaInsert(st.rows, data, 1)]]

StoreAdd(st, data) == IF st.kind = "sqlite" THEN SqliteAdd(st, data) ELSE ChromaAdd(st, data)

\* for i, strategy in enumerate(self.strategies_):
\*     strategy['store'].add(self.packages_[i])
\* acc = [stores, added, raised]
RECURSIVE LoadLoop(_, _, _, _)
LoadLoop(strats, packages, i, acc) ==
    IF i > Len(strats) \/ acc.raised # "none" THEN acc
    ELSE IF i > Len(packages) THEN [acc EXCEPT !.raised = "IndexError"]
    ELSE LET s == strats[i]["store"]
             out == StoreAdd(acc.stores[s], packages[i])
         IN  LoadLoop(strats, packages, i + 1,
                      IF out.raised # "none" THEN [acc EXCEPT !.raised = out.raised]
                      ELSE [stores |-> [acc.stores EXCEPT ![s] = out.store],
                            added  |-> Append(acc.added, [store |-> s, package |-> i]),
                            raised |-> "none"])

\* CompositeLoader.load()
load(strats, packages, sts, added) ==
    IF ~(Len(packages) > 0) THEN [stores |-> sts, added |-> added, raised |-> "AssertionError"]
    ELSE LoadLoop(strats, packages, 1, [stores |-> sts, added |-> added, raised |-> "none"])

\* ------------------------------------------- specification of the loader
InitLoad ==
    /\ \E n \in 1..NStrat : \E c \in [1..n -> LoaderChoices] : \E dup \in {"ignore", "raise"} :
          /\ strategies_ = [i \in 1..n |-> LoaderDescriptor(i, c[i])]
          /\ stores = [i \in 1..n |-> StoreOf(c[i], dup)]
    /\ packages_ = <<>>
    /\ now = 0
    /\ ld = NoLoad
    /\ query = ""
    /\ arg_k = 0
    /\ fusion_rank = <<>>
    /\ docs = <<>>
    /\ scores = <<>>
    /\ metadatas = <<>>
    /\ pcC = "idle"
    /\ RrfIdle
    /\ first_call = NoCall
    /\ calls = <<>>
    /\ RetIdle
    /\ ConcIdle

\* the metadata of the chunks of one call: every chunk is another paper
MetadatasOf(chunks) == [j \in DOMAIN chunks |-> [paper_id |-> ld.prepares * MaxChunks + j]]

ChunkLists == UNION {[1..m -> Texts] : m \in 1..MaxChunks}

\* loader.prepare(chunks, metadatas)
Prepare ==
    /\ ld.prepares < MaxPrepares
    /\ \E chunks \in ChunkLists :
        \E out \in {prepare(strategies_, packages_, ld.owner, chunks, MetadatasOf(chunks), now)} :
            /\ strategies_' = out.strategies
            /\ packages_' = out.packages
            /\ ld' = [ld EXCEPT !.op = "prepare", !.chunks = chunks, !.raised = out.raised,
                                !.base = Len(packages_), !.prepares = ld.prepares + 1,
                                !.owner = out.owner]
    /\ UNCHANGED <<stores, now, rrfVars, query, arg_k, fusion_rank, docs, scores, metadatas, pcC,
                   first_call, calls, retVars, concVars>>

\* loader.load()
Load ==
    /\ ld.loads < MaxLoads
    /\ \E out \in {load(strategies_, packages_, stores, ld.added)} :
            /\ stores' = out.stores
            /\ ld' = [ld EXCEPT !.op = "load", !.chunks = <<>>, !.raised = out.raised,
                                !.base = 0, !.loads = ld.loads + 1, !.added = out.added]
    /\ UNCHANGED <<packages_, now, rrfVars, compVars, first_call, calls, retVars, concVars>>

\* loader.prepare_load(chunks, metadatas): self.prepare(...); self.load()
PrepareLoad ==
    /\ ld.prepares < MaxPrepares
    /\ ld.loads < MaxLoads
    /\ \E chunks \in ChunkLists :
        \E p \in {prepare(strategies_, packages_, ld.owner, chunks, MetadatasOf(chunks), now)} :
            \E out \in {IF p.raised # "none"
                        THEN [stores |-> stores, added |-> ld.added, raised |-> p.raised]
                        ELSE load(p.strategies, p.packages, stores, ld.added)} :
                /\ strategies_' = p.strategies
                /\ packages_' = p.packages
                /\ stores' = out.stores
                /\ ld' = [ld EXCEPT !.op = "prepare_load", !.chunks = chunks,
                                    !.raised = out.raised, !.base = Len(packages_),
                                    !.prepares = ld.prepares + 1,
                                    !.loads = IF p.raised # "none" THEN ld.loads
                                              ELSE ld.loads + 1,
                                    !.owner = p.owner, !.added = out.added]
    /\ UNCHANGED <<now, rrfVars, query, arg_k, fusion_rank, docs, scores, metadatas, pcC,
                   first_call, calls, retVars, concVars>>

\* a second passes
Tick ==
    /\ now < MaxNow
    /\ now' = now + 1
    /\ UNCHANGED <<packages_, stores, ld, rrfVars, compVars, first_call, calls, retVars, concVars>>

NextLoad == Prepare \/ Load \/ PrepareLoad \/ Tick

SpecLoad == InitLoad /\ [][NextLoad]_vars

\* ======================================================================
\* --------------------- retrieval and the objects it works on (SpecFrame)
\* the objects of _retrieve_and_rank: the table of the store and the frame
\* that data is bound to
FrameHeap(st) == [table |-> st.rows, frame |-> <<>>, data |-> "none"]

\* data is the table itself
ReadSqlInPlace(heap) == [heap EXCEPT !.data = "table"]

\* data = pd.read_sql(sql, client): the rows of the table in a new frame
ReadSql(heap) == [heap EXCEPT !.frame = heap.table, !.data = "frame"]

\* data['score'] = scores; data.sort_values(..., inplace=True);
\* data['rank'] = np.arange(1, len(data)+1): all on the object data is bound to
RankInPlace(heap, tie) ==
    LET sorted == SortedRows("sqlite", heap[heap.data], tie)
    IN  [heap EXCEPT ![heap.data] =
            [i \in DOMAIN sorted |->
                [ids |-> sorted[i].ids, documents |-> sorted[i].documents,
                 metadatas |-> sorted[i].metadatas, score |-> sorted[i].score,
                 rank |-> Arange(i)]]]

\* the rows of the store after top_k or rank_all: SQLiteRetriever writes to
\* the frame of _retrieve_and_rank only, and only when read_sql and BM25Okapi
\* raised nothing; ChromaRetriever only calls collection.count and
\* collection.query
RowsAfter(k, cl, coll, st, tie) ==
    IF k = "sqlite" /\ ~NotConnected(cl)
                    /\ retrieve_and_rank(st, coll, tie).raised = "none"
    THEN RankInPlace(ReadSql(FrameHeap(st)), tie).table
    ELSE st.rows

\* the descriptors of a composite retriever whose strategies all hold the
\* one retrieval strategy
BoundDescriptor(name) == [name |-> name, retriever |-> "strategy"]

\* the strategy loop of retrieve over the bound descriptors; acc =
\* [results, fuse_results, rows, raised]
RECURSIVE RunBound(_, _, _)
RunBound(strats, i, acc) ==
    IF i > Len(strats) \/ acc.raised # "none" THEN acc
    ELSE LET name == strats[i].name
             st == [store EXCEPT !.rows = acc.rows]
             res == RankAllOf(kind, client, collection, st, tie_order)
         IN  RunBound(strats, i + 1,
                 IF res.raised # "none" THEN [acc EXCEPT !.raised = res.raised]
                 ELSE [results      |-> Put(acc.results, name, res),
                       fuse_results |-> Put(acc.fuse_results, name, RankDict(res, 1, <<>>)),
                       rows         |-> RowsAfter(kind, client, collection, st, tie_order),
                       raised       |-> "none"])

\* rerank works on its argument and on the dict it builds: final_d = {} is
\* a new dict, every list in it is made by final_d[chunk] = [rank], and
\* nothing is assigned into rankings or into rankings[strategy]
RerankObjects(rks) == [rankings |-> rks, final_d |-> rerank(rks)]

\* the orders the sort can leave entries of equal score in: tie_order is
\* read for such entries only, so one order stands for all that agree on them
TieOrders(rows) ==
    {q \in Perms(Len(rows)) :
        \A a, b \in DOMAIN q : a < b => rows[q[a]].score <= rows[q[b]].score}

InitFrame ==
    /\ kind \in {"sqlite", "chroma"}
    /\ \/ store = NoStore
       \/ \E rows \in RowSeqs(kind) :
             store = [exists |-> TRUE, collections |-> {"ices"}, rows |-> rows]
    /\ tie_order \in TieOrders(store.rows)
    /\ client = "None"
    /\ collection = "None"
    /\ ret = NoRet
    /\ \E n \in 1..NStrat : strategies_ = [i \in 1..n |-> BoundDescriptor(i)]
    /\ LoadIdle
    /\ ConcIdle
    /\ first_call = NoCall
    /\ calls = <<>>
    /\ RrfIdle
    /\ query = ""
    /\ arg_k = 0
    /\ fusion_rank = <<>>
    /\ docs = <<>>
    /\ scores = <<>>
    /\ metadatas = <<>>
    /\ pcC = "idle"

\* top_k(query, k) on the strategy
FrameTopK ==
    \E k \in 0..MaxK :
        /\ ret' = top_k(kind, client, collection, store, tie_order, k)
        /\ store' = [store EXCEPT !.rows = RowsAfter(kind, client, collection, store, tie_order)]
        /\ UNCHANGED <<kind, tie_order, client, collection,
                       rrfVars, compVars, first_call, calls, loadVars, concVars>>

\* rank_all(query) on the strategy
FrameRankAll ==
    /\ ret' = RankAllOf(kind, client, collection, store, tie_order)
    /\ store' = [store EXCEPT !.rows = RowsAfter(kind, client, collection, store, tie_order)]
    /\ UNCHANGED <<kind, tie_order, client, collection,
                   rrfVars, compVars, first_call, calls, loadVars, concVars>>

\* retrieve(query, k) on the composite retriever over the strategy; ret
\* holds the returned lists, and the rankings given to the reranker as they
\* were built and as they are after the call
FrameRetrieve ==
    \E k \in 0..MaxK :
        \E run \in {RunBound(strategies_, 1, [results |-> <<>>, fuse_results |-> <<>>,
                                              rows |-> store.rows, raised |-> "none"])} :
            /\ store' = [store EXCEPT !.rows = run.rows]
            /\ IF run.raised # "none"
               THEN ret' = [op |-> "retrieve", name |-> "", k |-> k, raised |-> run.raised,
                            documents |-> <<>>, document_ids |-> <<>>, rankings |-> <<>>,
                            scores |-> <<>>, metadatas |-> <<>>, built |-> <<>>]
               ELSE \E objs \in {RerankObjects(Values(run.fuse_results))} :
                    \E out \in {Select(run.results, objs.final_d, 1,
                                       ClampK(k, Len(objs.final_d)),
                                       [docs |-> <<>>, scores |-> <<>>,
                                        metadatas |-> <<>>, raised |-> FALSE])} :
                        ret' = [op |-> "retrieve", name |-> "", k |-> k,
                                raised |-> IF out.raised THEN "ValueError" ELSE "none",
                                documents |-> out.docs,
                                document_ids |-> KeyList(objs.final_d),
                                rankings |-> objs.rankings,
                                scores |-> out.scores, metadatas |-> out.metadatas,
                                built |-> Values(run.fuse_results)]
            /\ UNCHANGED <<kind, tie_order, client, collection,
                           rrfVars, compVars, first_call, calls, loadVars, concVars>>

NextFrame == Connect \/ FrameTopK \/ FrameRankAll \/ FrameRetrieve

SpecFrame == InitFrame /\ [][NextFrame]_vars

\* ------------------------------ two interleaved retrieve calls (SpecConc)
\* the two calls
Calls == {1, 2}

NoOut == [fusion_rank |-> <<>>, docs |-> <<>>, scores |-> <<>>, metadatas |-> <<>>,
          raised |-> FALSE, calls |-> <<>>]

\* a call that has not begun
NoFrame == [pc |-> "idle", query |-> "", k |-> 0, i |-> 0, concurrent |-> FALSE, out |-> NoOut]

\* results and fuse_results are attributes of the retriever object
LocalsOnObject(p) == 1

\* results, fuse_results: locals of the call (retriever.py:46-47)
LocalsOf(p) == p

\* SentenceTransformEmbedder.process: if self.model is None: self.model =
\* SentenceTransformer(self.model_name_)
ProcessLoads(model) == IF model = "None" THEN "loaded" ELSE model

\* self.model of the embedder of the strategy after the body of the loop:
\* process runs only when retrieve reaches it, through an engine that has
\* the method
ModelAfter(strategy, model) ==
    IF /\ "name" \in DOMAIN strategy
       /\ "embed" \in DOMAIN strategy
       /\ IsInstance(strategy["embed"], "EmbeddingEngine")
       /\ "process" \in MethodsOf(strategy["embed"])
    THEN ProcessLoads(model)
    ELSE model

\* the descriptors with a name and a retriever
WellFormedKeys == {keys \in SUBSET DescriptorKeys : {"name", "retriever"} \subseteq keys}

InitConc ==
    /\ \E n \in 1..NStrat : \E keys \in [1..n -> WellFormedKeys] :
       \E engines \in [1..n -> BOOLEAN] :
          strategies_ = [i \in 1..n |-> DescriptorWith(keys[i], i, engines[i])]
    /\ frames = [p \in Calls |-> NoFrame]
    /\ locals = [p \in Calls |-> NoRun]
    /\ models = [i \in DOMAIN strategies_ |-> "None"]
    /\ query = ""
    /\ arg_k = 0
    /\ fusion_rank = <<>>
    /\ docs = <<>>
    /\ scores = <<>>
    /\ metadatas = <<>>
    /\ pcC = "idle"
    /\ RrfIdle
    /\ first_call = NoCall
    /\ calls = <<>>
    /\ RetIdle
    /\ LoadIdle

ConcUnchanged ==
    UNCHANGED <<rrfVars, compVars, first_call, calls, retVars, loadVars>>

\* call p enters retrieve(query, k): results = {}; fuse_results = {}; of the
\* two calls, 1 is the one that enters first
Begin(p) ==
    /\ frames[p].pc = "idle"
    /\ \A c \in Calls : c < p => frames[c].pc # "idle"
    /\ \E q \in Texts : \E k \in 0..MaxK :
          frames' = [o \in Calls |->
                        IF o = p
                        THEN [pc |-> "loop", query |-> q, k |-> k, i |-> 1,
                              concurrent |-> \E c \in Calls \ {p} : frames[c].pc = "loop",
                              out |-> NoOut]
                        ELSE IF frames[o].pc = "loop"
                        THEN [frames[o] EXCEPT !.concurrent = TRUE]
                        ELSE frames[o]]
    /\ locals' = [locals EXCEPT ![LocalsOf(p)] = NoRun]
    /\ UNCHANGED models
    /\ ConcUnchanged

\* call p runs the body of the strategy loop for its next strategy
Body(p) ==
    /\ frames[p].pc = "loop"
    /\ frames[p].i <= Len(strategies_)
    /\ \E acc \in {RunOne(strategies_[frames[p].i], frames[p].i,
                          locals[LocalsOf(p)], frames[p].query)} :
          /\ locals' = [locals EXCEPT ![LocalsOf(p)] = acc]
          /\ frames' = [frames EXCEPT ![p] =
                           IF acc.raised # "none"
                           THEN [@ EXCEPT !.pc = "raised", !.out = FuseSelect(acc, @.k)]
                           ELSE [@ EXCEPT !.i = @ + 1]]
    /\ models' = [models EXCEPT ![frames[p].i] =
                     ModelAfter(strategies_[frames[p].i], @)]
    /\ ConcUnchanged

\* call p leaves the loop: fusion, selection and return
Finish(p) ==
    /\ frames[p].pc = "loop"
    /\ frames[p].i > Len(strategies_)
    /\ \E out \in {FuseSelect(locals[LocalsOf(p)], frames[p].k)} :
          frames' = [frames EXCEPT ![p] =
                        [@ EXCEPT !.pc = IF out.raised THEN "raised" ELSE "returned",
                                  !.out = out]]
    /\ UNCHANGED <<locals, models>>
    /\ ConcUnchanged

NextConc == \E p \in Calls : Begin(p) \/ Body(p) \/ Finish(p)

SpecConc == InitConc /\ [][NextConc]_vars

\* ------------------------------------ the floats of rerank, and its
\* ------------------------------------ calls on permuted arguments
\* A Python float greater than zero (IEEE 754 binary64) is [e, m]: m is the
\* significand of Precision bits, leading bit first and 1, and the value is
\* the sum of m[i] * 2^(e - i).  Zero is 0.0
Precision == 53

Zero == [e |-> 0, m |-> <<>>]

\* the list of the elements of a function on 1..n
AsTuple(f) == <<>> \o f

Zeros(n) == AsTuple([i \in 1..n |-> 0])

\* one unit in the last place is added to m: [m, carry]
Increment(m) ==
    [m     |-> AsTuple([i \in DOMAIN m |->
                           IF \A j \in (i + 1)..Len(m) : m[j] = 1 THEN 1 - m[i] ELSE m[i]]),
     carry |-> IF \A j \in DOMAIN m : m[j] = 1 THEN 1 ELSE 0]

\* round to nearest, ties to even: bits are the bits of the exact value from
\* its leading 1 on, sticky says that 1 bits follow them
RoundNearestEven(bits, sticky, e) ==
    LET m == SubSeq(bits, 1, Precision)
        rest == SubSeq(bits, Precision + 1, Len(bits))
        guard == IF rest = <<>> THEN 0 ELSE rest[1]
        more == sticky \/ \E i \in 2..Len(rest) : rest[i] = 1
        up == guard = 1 /\ (more \/ m[Precision] = 1)
        inc == Increment(m)
    IN  IF ~up THEN [e |-> e, m |-> m]
        ELSE IF inc.carry = 1 THEN [e |-> e + 1, m |-> <<1>> \o Zeros(Precision - 1)]
        ELSE [e |-> e, m |-> inc.m]

\* long division of 1 by d: the remainder left after j bits, 2^j mod d
RECURSIVE Remainder(_, _)
Remainder(j, d) == IF j = 0 THEN 1 % d ELSE (2 * Remainder(j - 1, d)) % d

\* the bit of weight 2^-j of 1 / d
QuotientBit(j, d) == IF 2 * Remainder(j - 1, d) >= d THEN 1 ELSE 0

\* 1 / d for an int d > 1, correctly rounded
Reciprocal(d) ==
    LET first == CHOOSE j \in 1..d : QuotientBit(j, d) = 1 /\ \A i \in 1..(j - 1) : QuotientBit(i, d) = 0
        bits == AsTuple([i \in 1..(Precision + 1) |-> QuotientBit(first + i - 1, d)])
    IN  RoundNearestEven(bits, Remainder(first + Precision, d) # 0, 1 - first)

\* the carry into bit i of the sum of the bit strings a and b of equal length
CarryInto(a, b, i) ==
    \E j \in (i + 1)..Len(a) :
        /\ a[j] + b[j] = 2
        /\ \A l \in (i + 1)..(j - 1) : a[l] + b[l] = 1

\* x + y on floats
FloatAdd(x, y) ==
    IF x = Zero THEN y
    ELSE IF y = Zero THEN x
    ELSE LET hi == IF x.e >= y.e THEN x ELSE y
             lo == IF x.e >= y.e THEN y ELSE x
             shift == hi.e - lo.e
             a == hi.m \o Zeros(shift)
             b == Zeros(shift) \o lo.m
             sum == AsTuple([i \in DOMAIN a |->
                        (a[i] + b[i] + IF CarryInto(a, b, i) THEN 1 ELSE 0) % 2])
         IN  IF CarryInto(a, b, 0) THEN RoundNearestEven(<<1>> \o sum, FALSE, hi.e + 1)
             ELSE RoundNearestEven(sum, FALSE, hi.e)

\* x < y on floats greater than zero
FloatLess(x, y) ==
    \/ x.e < y.e
    \/ /\ x.e = y.e
       /\ \E i \in 1..Precision : /\ x.m[i] < y.m[i]
                                  /\ \A j \in 1..(i - 1) : x.m[j] = y.m[j]

\* the ranks of two documents in the rankings of a corpus of MaxPermRank
\* documents
PermRanks == {1, MaxPermRank - 1, MaxPermRank}

\* 1 / (k + rank + 1) as the float Python computes, for every real and
\* padded rank
RrfTerm64 == [rank \in 1..(MaxPermRank + 1) |-> Reciprocal(RRF_K + rank + 1)]

\* _rrf(ranking) in floats: final_rank = 0; final_rank += 1 / (k + rank + 1)
RECURSIVE rrf64From(_, _)
rrf64From(ranking, final_rank) ==
    IF ranking = <<>> THEN final_rank
    ELSE rrf64From(Tail(ranking), FloatAdd(final_rank, RrfTerm64[Head(ranking)]))

rrf64(ranking) == rrf64From(ranking, Zero)

Scored64(fd) == [i \in DOMAIN fd |-> [key |-> fd[i].key, val |-> rrf64(fd[i].val)]]

\* sorted(..., key=lambda item: item[1], reverse=True) on float scores
StaysBefore64(x, y) == ~FloatLess(x.val, y.val)

InsertSorted64(sorted, y) ==
    LET front == {i \in DOMAIN sorted : \A j \in 1..i : StaysBefore64(sorted[j], y)}
        pos == Cardinality(front)
    IN  SubSeq(sorted, 1, pos) \o <<y>> \o SubSeq(sorted, pos + 1, Len(sorted))

RECURSIVE SortFrom64(_, _)
SortFrom64(items, sorted) ==
    IF items = <<>> THEN sorted
    ELSE SortFrom64(Tail(items), InsertSorted64(sorted, Head(items)))

\* rerank(rankings) with the scores as floats
rerank64(rks) == SortFrom64(Scored64(Padded(rks)), <<>>)

\* the dict of one strategy for the two documents: rank_d is filled in rank
\* order (retriever.py:76-78)
PermRankMap(a, b) ==
    IF a < b THEN <<[key |-> 1, val |-> a], [key |-> 2, val |-> b]>>
    ELSE <<[key |-> 2, val |-> b], [key |-> 1, val |-> a]>>

PermRankMaps == {PermRankMap(a, b) : a, b \in PermRanks} \ {PermRankMap(a, a) : a \in PermRanks}

InitPerm ==
    /\ \E n \in 1..PermStrats : rankings \in [1..n -> PermRankMaps]
    /\ contrib = <<>>
    /\ final_d = <<>>
    /\ pcR = "input"
    /\ improved = NoChange
    /\ strategies_ = <<>>
    /\ query = ""
    /\ arg_k = 0
    /\ fusion_rank = <<>>
    /\ docs = <<>>
    /\ scores = <<>>
    /\ metadatas = <<>>
    /\ pcC = "idle"
    /\ first_call = NoCall
    /\ calls = <<>>
    /\ RetIdle
    /\ LoadIdle
    /\ ConcIdle

\* rerank on the strategies in the configured order
RerankConfigured ==
    /\ pcR = "input"
    /\ \E out \in {rerank64(rankings)} :
          /\ final_d' = out
          /\ first_call' = [called |-> TRUE, rankings |-> rankings, final_d |-> out,
                            between |-> FALSE]
    /\ contrib' = Padded(rankings)
    /\ pcR' = "configured"
    /\ UNCHANGED <<rankings, improved, compVars, calls, retVars, loadVars, concVars>>

\* rerank on the same strategies in another order
RerankPermuted ==
    /\ pcR = "configured"
    /\ \E p \in Perms(Len(rankings)) :
          \E rks \in {[i \in DOMAIN rankings |-> first_call.rankings[p[i]]]} :
             /\ rankings' = rks
             /\ contrib' = Padded(rks)
             /\ final_d' = rerank64(rks)
    /\ pcR' = "permuted"
    /\ UNCHANGED <<improved, compVars, first_call, calls, retVars, loadVars, concVars>>

NextPerm == RerankConfigured \/ RerankPermuted

SpecPerm == InitPerm /\ [][NextPerm]_vars

\* Properties of CompositeRetriever.retrieve, checked under Spec
\* ======================================================================
Returned == pcC = "returned"

\* the number of items the contract promises: min(k, number of fused entries)
Promised == Min(arg_k, Len(fusion_rank))

\* strategy s (position in strategies_) ranks document id
RankedBy(s, id) ==
    \E j \in DOMAIN strategies_[s].retriever.ranked :
        strategies_[s].retriever.ranked[j].ids = id

\* the metadata strategy s holds for document id
MetaOf(s, id) ==
    LET rk == strategies_[s].retriever.ranked
    IN  rk[CHOOSE j \in DOMAIN rk : rk[j].ids = id].metadatas

\* the positions of the returned documents / metadata that belong to id
DocsOf(id) == {j \in DOMAIN docs : docs[j].id = id}
MetasOf(id) == {j \in DOMAIN metadatas :
                   \E key \in DOMAIN metadatas[j] : metadatas[j][key].id = id}

\* C1: retrieve(query, k) returns three sequences of the same length, and that
\* length is min(k, number of fused entries).
C1_SameLengthMinK ==
    Returned => /\ Len(docs) = Len(scores)
                /\ Len(scores) = Len(metadatas)
                /\ Len(scores) = Promised

\* C2: for every position i, documents[i], scores[i] and metadatas[i] belong to
\* the i-th document id of the fused ranking.
C2_ParallelInFusedOrder ==
    Returned =>
        \A i \in 1..Promised :
            /\ i \in DOMAIN scores /\ scores[i] = fusion_rank[i].val
            /\ i \in DOMAIN docs /\ docs[i].id = fusion_rank[i].key
            /\ i \in DOMAIN metadatas
            /\ \A key \in DOMAIN metadatas[i] : metadatas[i][key].id = fusion_rank[i].key

\* C3: retrieve(query, k) returns at most k items, and the returned fused
\* scores are in non-increasing order.
C3_AtMostKNonIncreasing ==
    Returned => /\ Len(docs) <= arg_k
                /\ Len(scores) <= arg_k
                /\ Len(metadatas) <= arg_k
                /\ \A i \in 1..(Len(scores) - 1) : scores[i] >= scores[i + 1]

\* the merge the contract describes: every key of every strategy that ranks id,
\* with the value of the first such strategy in configured order
FirstWinsMerge(id) ==
    LET holders == {s \in DOMAIN strategies_ : RankedBy(s, id)}
        allkeys == UNION {DOMAIN MetaOf(s, id) : s \in holders}
        first(key) == CHOOSE s \in holders :
                          /\ key \in DOMAIN MetaOf(s, id)
                          /\ \A t \in holders : key \in DOMAIN MetaOf(t, id) => s <= t
    IN  [key \in allkeys |-> MetaOf(first(key), id)[key]]

\* C4: for each selected document id the returned metadata is the merge of the
\* metadata of every strategy that contains the id, first strategy wins.
C4_MetadataFirstWinsMerge ==
    Returned =>
        \A i \in 1..Promised :
            \E j \in DOMAIN metadatas : metadatas[j] = FirstWinsMerge(fusion_rank[i].key)

\* document id is ranked by strategy A and by no other configured strategy
OnlyIn(id, A) ==
    /\ Len(strategies_) >= 2
    /\ RankedBy(A, id)
    /\ \A B \in DOMAIN strategies_ : B # A => ~RankedBy(B, id)

\* C5: a document ranked by strategy A and absent from the other rankings is
\* still returned (k large enough) exactly once, with text and metadata taken
\* from A; the miss does not abort the query and removes no other result.
C5_MissSkipped ==
    (pcC # "idle" /\ arg_k >= Len(fusion_rank)) =>
        \A A \in DOMAIN strategies_ : \A id \in DocIds :
            OnlyIn(id, A) =>
                /\ Returned
                /\ Cardinality(DocsOf(id)) = 1
                /\ \A j \in DocsOf(id) : docs[j] = [id |-> id, src |-> strategies_[A].name]
                /\ Cardinality(MetasOf(id)) = 1
                /\ \A j \in MetasOf(id) : metadatas[j] = MetaOf(A, id)
                /\ Len(scores) = Len(fusion_rank)
                /\ \A e \in DocIds :
                      (\E s \in DOMAIN strategies_ : RankedBy(s, e)) =>
                          /\ e \in Keys(fusion_rank)
                          /\ DocsOf(e) # {}
                          /\ MetasOf(e) # {}

C5_Witness ==
    /\ Returned
    /\ arg_k >= Len(fusion_rank)
    /\ Len(fusion_rank) >= 2
    /\ \E A \in DOMAIN strategies_ : \E id \in DocIds :
          OnlyIn(id, A) /\ DocsOf(id) # {}

\* ======================================================================
\* Properties of ReciprocalRerankFusion.rerank, checked under SpecRRF (C10:
\* under SpecMono)
\* ======================================================================
Done == pcR = "done"

\* the chunk ids of the argument, as a set
UnionIds(rks) == UNION {Keys(rks[s]) : s \in DOMAIN rks}

\* the rank strategy s contributes for chunk id d: its own rank, or the
\* conservative rank (maximum rank seen in the call) + 1
RankOrPad(rks, s, d) ==
    IF d \in Keys(rks[s]) THEN Get(rks[s], d) ELSE MaxRankSeen(rks) + 1

\* sum over all strategies of 1 / (60 + rank_s(d) + 1), times Scale
DirectScore(rks, d) ==
    SumSeq([s \in DOMAIN rks |-> Scale \div (60 + RankOrPad(rks, s, d) + 1)])

\* C6: every document gets the fused score sum over all strategies of
\* 1 / (K + rank_s(d) + 1) with K = 60; a document at rank 1 in both of two
\* strategies gets exactly 2/62.
C6_FusedScoreFormula ==
    Done =>
        /\ \A d \in UnionIds(rankings) :
              d \in Keys(final_d) /\ Get(final_d, d) = DirectScore(rankings, d)
        /\ \A d \in DocIds :
              (Len(rankings) = 2 /\ \A s \in {1, 2} :
                    d \in Keys(rankings[s]) /\ Get(rankings[s], d) = 1)
                 => Get(final_d, d) * 62 = 2 * Scale

C6_Witness ==
    /\ Done
    /\ Len(rankings) = 2
    /\ \E d \in DocIds :
          /\ \A s \in {1, 2} : d \in Keys(rankings[s]) /\ Get(rankings[s], d) = 1
          /\ d \in Keys(final_d)
    /\ \E e \in Keys(final_d) : \E s \in {1, 2} : e \notin Keys(rankings[s])

\* the strategies that rank chunk id d, in input order
RECURSIVE RealRanks(_, _, _)
RealRanks(rks, s, d) ==
    IF s > Len(rks) THEN <<>>
    ELSE (IF d \in Keys(rks[s]) THEN <<Get(rks[s], d)>> ELSE <<>>)
             \o RealRanks(rks, s + 1, d)

\* C7: a document that appears in m < N strategies receives exactly N - m
\* padded contributions, each (maximum rank seen in the call) + 1, so every
\* document has N contributions before scoring, and its score is the formula
\* applied to its real ranks plus the padded ranks.
C7_EqualRepresentation ==
    Done =>
        LET N == Len(rankings)
        IN  /\ Keys(contrib) = UnionIds(rankings)
            /\ \A d \in Keys(contrib) :
                  LET real == RealRanks(rankings, 1, d)
                      m == Len(real)
                      c == Get(contrib, d)
                  IN  /\ Len(c) = N
                      /\ SubSeq(c, 1, m) = real
                      /\ \A j \in (m + 1)..N : c[j] = MaxRankSeen(rankings) + 1
                      /\ Cardinality({j \in DOMAIN c : j > m}) = N - m
                      /\ Get(final_d, d) =
                            SumSeq([j \in 1..N |-> Scale \div (RRF_K + c[j] + 1)])

C7_Witness ==
    /\ Done
    /\ Len(rankings) = NStrat
    /\ \E d \in Keys(contrib) :
          /\ Len(RealRanks(rankings, 1, d)) = 1
          /\ Get(contrib, d)[1] < MaxRankSeen(rankings)
          /\ Get(contrib, d)[Len(rankings)] = MaxRankSeen(rankings) + 1

\* C8: rerank has no failure states: for every input, also the empty mapping
\* and strategies with empty rankings, the key set of the returned map is
\* exactly the union of the ids of all strategies, each id once; empty input
\* gives an empty output.
C8_TotalOverUnion ==
    Done =>
        /\ Keys(final_d) = UnionIds(rankings)
        /\ Len(final_d) = Cardinality(UnionIds(rankings))
        /\ \A i \in DOMAIN final_d : final_d[i].val > 0
        /\ (rankings = <<>> => final_d = <<>>)
        /\ ((\A s \in DOMAIN rankings : rankings[s] = <<>>) => final_d = <<>>)

C8_Witness ==
    /\ Done
    /\ Len(rankings) = NStrat
    /\ \E s \in DOMAIN rankings : rankings[s] = <<>>
    /\ \E s \in DOMAIN rankings : Len(rankings[s]) = 2
    /\ Len(final_d) = 2

\* the position at which the assembly pass meets chunk id d for the first time:
\* strategies in input order, chunks in each strategy's order
FirstSeen(rks, d) ==
    LET s0 == CHOOSE s \in DOMAIN rks :
                  d \in Keys(rks[s]) /\ \A t \in 1..(s - 1) : d \notin Keys(rks[t])
        i0 == CHOOSE i \in DOMAIN rks[s0] : rks[s0][i].key = d
    IN  s0 * (NumDocs + 1) + i0

\* C9: the returned map is ordered descending by fused score, and documents
\* with equal scores keep the order in which the assembly pass met them.
C9_DescendingStable ==
    Done =>
        \A i, j \in DOMAIN final_d :
            i < j =>
                /\ final_d[i].val >= final_d[j].val
                /\ final_d[i].val = final_d[j].val =>
                      FirstSeen(rankings, final_d[i].key) < FirstSeen(rankings, final_d[j].key)

C9_Witness ==
    /\ Done
    /\ \E i, j \in DOMAIN final_d :
          /\ i < j
          /\ final_d[i].val = final_d[j].val
          /\ final_d[i].key > final_d[j].key
    /\ \E s \in DOMAIN rankings : Len(rankings[s]) = 2 /\ rankings[s][1].val > rankings[s][2].val

ScoreOf(fd, d) == Get(fd, d)

\* C10: if the rank of document d in one strategy is replaced by a smaller rank
\* and every other rank is held fixed, the fused score of d does not decrease,
\* also when d is padded elsewhere and the change lowers the maximum rank.
C10_Monotone ==
    [][(improved = NoChange /\ improved' # NoChange)
          => ScoreOf(final_d', improved'.id) >= ScoreOf(final_d, improved'.id)]_vars

C10_Witness ==
    /\ Done
    /\ improved # NoChange
    /\ improved.lowered
    /\ Len(RealRanks(rankings, 1, improved.id)) < Len(rankings)
    /\ Len(final_d) = 2

\* ======================================================================
\* Properties of repeated calls of rerank, checked under SpecDet
\* ======================================================================
\* C11: two invocations of rerank on equal rankings return the same score map:
\* the same keys, the same scores and the same key order, whatever was invoked
\* on the same object before.
C11_Deterministic ==
    pcR = "again" =>
        /\ rankings = first_call.rankings
        /\ final_d = first_call.final_d
        /\ KeyList(final_d) = KeyList(first_call.final_d)
        /\ \A d \in Keys(final_d) : Get(final_d, d) = Get(first_call.final_d, d)

C11_Witness ==
    /\ pcR = "again"
    /\ first_call.between
    /\ Len(rankings) = 2
    /\ Len(final_d) = 2
    /\ \E d \in Keys(final_d) : Len(RealRanks(rankings, 1, d)) = 1

\* ======================================================================
\* Properties of one retrieval strategy, checked under SpecRet
\* ======================================================================
\* connect succeeded: the client is set and the collection is bound
Connected == client = "set" /\ collection \in store.collections

\* the size of the corpus
CorpusSize == Len(store.rows)

NoDuplicates(seq) == \A i, j \in DOMAIN seq : i # j => seq[i] # seq[j]

Range(seq) == {seq[i] : i \in DOMAIN seq}

StoredScore(id) ==
    store.rows[CHOOSE i \in DOMAIN store.rows : store.rows[i].ids = id].score

\* a strictly better native score: higher for SQLite, nearer for Chroma
NativeBetter(a, b) == IF kind = "sqlite" THEN a > b ELSE a < b

\* C13: rank_all orders the entries by the native score and entries of equal
\* score by document_id, so the ranks do not depend on the storage order.
C13_TiesByDocumentId ==
    (ret.op = "rank_all" /\ ret.raised = "none") =>
        \A i, j \in DOMAIN ret.document_ids :
            i < j =>
                \/ NativeBetter(StoredScore(ret.document_ids[i]),
                                StoredScore(ret.document_ids[j]))
                \/ /\ StoredScore(ret.document_ids[i]) = StoredScore(ret.document_ids[j])
                   /\ ret.document_ids[i] < ret.document_ids[j]

\* the rank rank_all gave to document id
RankGiven(id) == ret.rankings[PosIn(ret.document_ids, id)]

\* the score column of the stored entries
ScoreColumn == [i \in DOMAIN store.rows |-> store.rows[i].score]

\* C14: in the sparse strategy's rank_all rank 1 is the entry with the highest
\* score, and of two entries the one with the strictly higher score has the
\* strictly smaller rank; reverse_rank_list ranks the same way.
C14_HighestScoreFirst ==
    (kind = "sqlite" /\ ret.op = "rank_all" /\ ret.raised = "none") =>
        /\ \A i, j \in DOMAIN store.rows :
              store.rows[i].score > store.rows[j].score
                  => RankGiven(store.rows[i].ids) < RankGiven(store.rows[j].ids)
        /\ \A i \in DOMAIN store.rows :
              RankGiven(store.rows[i].ids) = 1
                  => \A j \in DOMAIN store.rows : store.rows[i].score >= store.rows[j].score
        /\ LET ranks == reverse_rank_list(ScoreColumn)
           IN  /\ \A i, j \in DOMAIN ScoreColumn :
                     ScoreColumn[i] > ScoreColumn[j] => ranks[i] < ranks[j]
               /\ \A i \in DOMAIN ScoreColumn :
                     ranks[i] = 1 <=> \A j \in DOMAIN ScoreColumn :
                                          ScoreColumn[i] >= ScoreColumn[j]

C14_Witness ==
    /\ kind = "sqlite"
    /\ ret.op = "rank_all"
    /\ ret.raised = "none"
    /\ CorpusSize = 2
    /\ store.rows[1].score < store.rows[2].score
    /\ ret.document_ids[1] = store.rows[2].ids

\* C15: top_k(query, k) returns exactly the first min(k, N) entries of
\* rank_all(query), best first, for every k >= 0; a k above N is clamped and
\* raises no error.  (Stated for the corpora on which rank_all returns, N > 0.)
C15_TopKPrefixOfRankAll ==
    (ret.op = "top_k" /\ Connected /\ CorpusSize > 0) =>
        LET all == RankAllOf(kind, client, collection, store, tie_order)
            n == Min(ret.k, CorpusSize)
        IN  /\ ret.raised = "none"
            /\ Len(ret.documents) = n
            /\ Len(ret.scores) = n
            /\ Len(ret.metadatas) = n
            /\ \A i \in 1..n :
                  /\ i \in DOMAIN all.documents
                  /\ ret.documents[i] = all.documents[i]
                  /\ ret.metadatas[i] = all.metadatas[i]
                  /\ ret.scores[i] = StoredScore(all.document_ids[i])

\* C16: top_k or rank_all on a strategy that has never been connected raises
\* the 'not connected' ValueError and never returns a ranking, empty or not.
C16_NotConnectedSignalled ==
    (ret.op \in {"top_k", "rank_all"} /\ client = "None") =>
        /\ ret.raised = "ValueError"
        /\ ret.documents = <<>>
        /\ ret.document_ids = <<>>
        /\ ret.rankings = <<>>

C16_Witness ==
    /\ ret.op = "rank_all"
    /\ client = "None"
    /\ ret.raised = "ValueError"
    /\ store.collections = {"ices"}
    /\ CorpusSize = NumDocs

\* C17: connect of a read-only strategy fails with an error when the store or
\* the named collection does not exist, and creates neither of them.
C17_ConnectFailsWithoutCreating ==
    [][(ret'.op = "connect" /\ (~store.exists \/ ret'.name \notin store.collections))
          => (ret'.raised # "none" /\ store' = store)]_vars

\* C18: rank_all on a connected strategy whose corpus has zero entries returns
\* an empty, zero-length ranking without raising.
C18_EmptyCorpusValid ==
    (ret.op = "rank_all" /\ Connected /\ CorpusSize = 0) =>
        /\ ret.raised = "none"
        /\ ret.documents = <<>>
        /\ ret.document_ids = <<>>
        /\ ret.rankings = <<>>
        /\ ret.metadatas = <<>>

\* ======================================================================
\* Properties of the composite retriever over the caller's descriptors,
\* checked under SpecCfg
\* ======================================================================
\* a descriptor without its 'name' or its 'retriever' binding
Malformed(strategy) == ~({"name", "retriever"} \subseteq DOMAIN strategy)

\* C19: a malformed strategy descriptor is reported as an error before the
\* query is worked on: when the error is raised no strategy's preprocessing,
\* embedding or rank_all has been invoked, wherever the descriptor stands.
C19_MalformedReportedBeforeQuery ==
    (pcC \in {"returned", "raised"} /\ \E i \in DOMAIN strategies_ : Malformed(strategies_[i]))
        => (pcC = "raised" /\ calls = <<>>)

\* C20: the composite retriever offers top_k(query, k) with the same result
\* as retrieve(query, k).
C20_TopKSameAsRetrieve ==
    (pcC \in {"top_k returned", "top_k raised", "top_k AttributeError"}
        /\ \A i \in DOMAIN strategies_ : ~Malformed(strategies_[i]))
        => /\ pcC = "top_k returned"
           /\ docs = retrieve_traced(strategies_, query, arg_k).docs
           /\ scores = retrieve_traced(strategies_, query, arg_k).scores
           /\ metadatas = retrieve_traced(strategies_, query, arg_k).metadatas

\* ======================================================================
\* Properties of CompositeLoader, checked under SpecLoad
\* ======================================================================
\* the package the last prepare call made for the strategy at position i
LastPackage(i) == packages_[ld.base + i]

\* what the strategy at position i makes of the chunks passed to prepare: its
\* own preprocessing, then its own embedding
OwnRepresentation(i, chunks) ==
    LET own == IF "preprocess" \in DOMAIN strategies_[i] THEN batch_preprocess(chunks)
               ELSE chunks
    IN  IF "embed" \in DOMAIN strategies_[i] THEN EmbedBatchProcess(own)
        ELSE [j \in DOMAIN own |-> Str(own[j])]

\* C21: in prepare, for every strategy and every order of the strategies, the
\* documents of the strategy's package are the original chunks, and the
\* preprocessing of one strategy reaches neither the documents nor the
\* embedding input of a later strategy.
C21_DocumentsUntransformed ==
    (ld.op = "prepare" /\ ld.raised = "none") =>
        \A i \in DOMAIN strategies_ :
            /\ LastPackage(i).documents = ld.chunks
            /\ LastPackage(i).embeddings = OwnRepresentation(i, ld.chunks)

\* the document ids a store holds, and the papers an id is bound to in it
IdsIn(s) == {stores[s].rows[j].ids : j \in DOMAIN stores[s].rows}

PaperOf(s, j) ==
    IF stores[s].kind = "sqlite" THEN json_loads(stores[s].rows[j].metadatas).paper_id
    ELSE stores[s].rows[j].metadatas.paper_id

PapersOf(s, id) == {PaperOf(s, j) : j \in {l \in DOMAIN stores[s].rows : stores[s].rows[l].ids = id}}

\* C22: after prepare_load every strategy's store holds the same set of
\* document ids, and each id is bound to the same logical chunk in every
\* store, also when two chunks have the same (preprocessed) text.
C22_SameIdsInEveryStore ==
    (ld.op = "prepare_load" /\ ld.raised = "none") =>
        \A s, t \in DOMAIN stores :
            /\ IdsIn(s) = IdsIn(t)
            /\ \A id \in IdsIn(s) : PapersOf(s, id) = PapersOf(t, id)

\* C23: no two distinct chunks ever receive the same document id, within one
\* prepare call and across calls, also within one clock second.
C23_IdsUnique ==
    \A p, q \in DOMAIN packages_ :
        \A a \in DOMAIN packages_[p].ids : \A b \in DOMAIN packages_[q].ids :
            packages_[p].metadatas[a].paper_id # packages_[q].metadatas[b].paper_id
                => packages_[p].ids[a] # packages_[q].ids[b]

\* how often package j was added to store s
TimesAdded(s, j) ==
    Cardinality({e \in DOMAIN ld.added : ld.added[e] = [store |-> s, package |-> j]})

\* C24: after any sequence of prepare and load calls that ends with load,
\* every package prepared for strategy i has been added to the store of
\* strategy i exactly once and to no other store.
C24_EveryPackageLoadedOnce ==
    (ld.op \in {"load", "prepare_load"} /\ ld.raised = "none") =>
        \A j \in DOMAIN packages_ : \A s \in DOMAIN stores :
            TimesAdded(s, j) = IF s = strategies_[ld.owner[j]]["store"] THEN 1 ELSE 0

\* ------------- Properties of the strategy loop, checked under SpecCfg
\* the calls the configuration of strategies_[i] asks for on the query q:
\* preprocess on the raw query when a preprocessor is configured, process on
\* the outcome when an embedder is configured, then one rank_all on the
\* transformed query
ConfiguredCalls(i, q) ==
    LET strategy == strategies_[i]
        q1 == IF "preprocess" \in DOMAIN strategy THEN Str(preprocess(q)) ELSE Str(q)
        q2 == IF "embed" \in DOMAIN strategy THEN Vector(q1.of) ELSE q1
    IN  (IF "preprocess" \in DOMAIN strategy THEN <<CallOf(i, "preprocess", Str(q))>> ELSE <<>>)
        \o (IF "embed" \in DOMAIN strategy THEN <<CallOf(i, "process", q1)>> ELSE <<>>)
        \o <<CallOf(i, "rank_all", q2)>>

RECURSIVE ConfiguredCallsFrom(_, _)
ConfiguredCallsFrom(i, q) ==
    IF i > Len(strategies_) THEN <<>>
    ELSE ConfiguredCalls(i, q) \o ConfiguredCallsFrom(i + 1, q)

\* C27: after retrieve over descriptors that all have a name and a
\* retriever, the calls made are those of the strategies in the configured
\* order, each strategy starting from the raw query: its configured
\* preprocessing, then its configured embedding, then exactly one rank_all on
\* the transformed query, and the call returns
C27_StagesAppliedInOrder ==
    (/\ pcC \in {"returned", "raised"}
     /\ \A i \in DOMAIN strategies_ : ~Malformed(strategies_[i]))
        => /\ pcC = "returned"
           /\ calls = ConfiguredCallsFrom(1, query)

\* ------------- Properties of connect, checked under SpecRet
\* C30: after any sequence of connect attempts the guard `client is not
\* None` holds only if a collection of the store is bound, and a top_k or
\* rank_all on a strategy with no usable collection bound raises the 'has
\* not been connected' ValueError
C30_FailedConnectNotConnected ==
    /\ client # "None" => collection \in store.collections
    /\ (ret.op \in {"top_k", "rank_all"} /\ collection \notin store.collections)
          => ret.raised = "ValueError"

\* ------------- Properties of dominance in rerank, checked under SpecRRF
\* the strategy at position s of the argument ranks the chunk
RanksChunk(s, chunk) == chunk \in Keys(rankings[s])

RankedByAll(chunk) == \A s \in DOMAIN rankings : RanksChunk(s, chunk)

\* d is ranked no worse than e by every strategy and better by at least one
Dominates(d, e) ==
    /\ RankedByAll(d) /\ RankedByAll(e)
    /\ \A s \in DOMAIN rankings : Get(rankings[s], d) <= Get(rankings[s], e)
    /\ \E s \in DOMAIN rankings : Get(rankings[s], d) < Get(rankings[s], e)

\* every strategy of a non-empty argument gives the chunk the rank 1
RankedFirstByAll(chunk) ==
    /\ rankings # <<>>
    /\ \A s \in DOMAIN rankings : RanksChunk(s, chunk) /\ Get(rankings[s], chunk) = 1

PositionIn(fd, chunk) == CHOOSE i \in DOMAIN fd : fd[i].key = chunk

\* the number of strategies that rank the chunk
TimesRanked(chunk) == Cardinality({s \in DOMAIN rankings : RanksChunk(s, chunk)})

DominantScoresHigher ==
    \A d, e \in Keys(final_d) :
        Dominates(d, e) => /\ Get(final_d, d) > Get(final_d, e)
                           /\ PositionIn(final_d, d) < PositionIn(final_d, e)

PaddedRanksWorst ==
    \A i \in DOMAIN contrib : \A j \in DOMAIN contrib[i].val :
        j > TimesRanked(contrib[i].key) =>
            \A s \in DOMAIN rankings : \A c \in DOMAIN rankings[s] :
                contrib[i].val[j] > rankings[s][c].val

\* C29 as stated: after rerank a dominating document has the strictly
\* higher fused score and precedes the dominated one, every document ranked
\* 1 by every strategy is the first key of the fused dict, and every padded
\* rank is greater than every real rank of the call
C29_DominanceTopOneAlways ==
    pcR = "done" =>
        /\ DominantScoresHigher
        /\ \A d \in Keys(final_d) : RankedFirstByAll(d) => final_d[1].key = d
        /\ PaddedRanksWorst

\* C29, amended: after rerank a dominating document has the strictly higher
\* fused score and precedes the dominated one, a document ranked 1 by every
\* strategy has the highest fused score and is the first key of the fused
\* dict when no other document is ranked 1 by every strategy, and every
\* padded rank is greater than every real rank of the call
C29_Dominance ==
    pcR = "done" =>
        /\ DominantScoresHigher
        /\ \A d \in Keys(final_d) :
              RankedFirstByAll(d) =>
                 /\ \A e \in Keys(final_d) : Get(final_d, d) >= Get(final_d, e)
                 /\ (\A e \in Keys(final_d) \ {d} : ~RankedFirstByAll(e))
                        => final_d[1].key = d
        /\ PaddedRanksWorst

\* two strategies rank both documents, one of them gives both the same rank,
\* and the dominating document is the later key of the argument; some other
\* call pads a document
C29_Witness ==
    /\ pcR = "done"
    /\ Len(rankings) = 2
    /\ \E d, e \in Keys(final_d) :
          /\ Dominates(d, e)
          /\ \E s \in DOMAIN rankings : Get(rankings[s], d) = Get(rankings[s], e)
          /\ PositionIn(rankings[1], e) < PositionIn(rankings[1], d)
          /\ RankedFirstByAll(d)

\* ------------- Properties of the order of the strategies, checked under SpecPerm
\* the first k keys of a fused dict
TopIds(fd, k) == {fd[i].key : i \in 1..Min(k, Len(fd))}

\* C28: after rerank was called on the strategies in the configured order
\* and on a permutation of them, every document id has the same fused score
\* in both results, and for every k the ids among the first k of one result
\* and not of the other have equal fused scores
C28_StrategyOrderIrrelevant ==
    pcR = "permuted" =>
        /\ Keys(final_d) = Keys(first_call.final_d)
        /\ \A id \in Keys(final_d) : Get(final_d, id) = Get(first_call.final_d, id)
        /\ \A k \in 0..Len(final_d) :
              \A a \in TopIds(first_call.final_d, k) \ TopIds(final_d, k) :
                 \A b \in TopIds(final_d, k) \ TopIds(first_call.final_d, k) :
                    /\ Get(final_d, a) = Get(final_d, b)
                    /\ Get(first_call.final_d, a) = Get(first_call.final_d, b)

\* ------------- Properties of what retrieval leaves alone, checked under SpecFrame
\* C25: a step of top_k, rank_all or CompositeRetriever.retrieve leaves the
\* store of the strategy (its entries and their stored order) and the list of
\* strategy descriptors as they were, and after a retrieve that reached the
\* reranker the rankings it passed are as they were built
C25_RetrievalLeavesCorpusAndConfiguration ==
    [][ret'.op \in {"top_k", "rank_all", "retrieve"} =>
          /\ store' = store
          /\ strategies_' = strategies_
          /\ (ret'.op = "retrieve" /\ ret'.raised = "none")
                => ret'.rankings = ret'.built]_vars

\* retrieve returned over two strategies on a store of two entries whose
\* relevance order is not their stored order
C25_Witness ==
    /\ ret.op = "retrieve"
    /\ ret.raised = "none"
    /\ Len(strategies_) = 2
    /\ Len(store.rows) = 2
    /\ store.rows[1].ids # ret.document_ids[1]
    /\ Len(ret.rankings) = 2
    /\ Len(ret.documents) > 0

====
